---------------------------- MODULE Spec2Model ----------------------------
(***************************************************************************)
(* Model of the WhatToDo client (expo-app): the list screens' derived      *)
(* section views, the list screens' synchronisation with the remote row    *)
(* store, and the create / edit screens' validation and writes.            *)
(*                                                                         *)
(* Time is counted in ticks, TicksPerDay ticks to the day.  Texts are      *)
(* sequences of one-character strings.                                     *)
(***************************************************************************)
EXTENDS Integers, Sequences, FiniteSets, TLC

\* ------------------------------------------------------------------ bounds
MaxRows == 2        \* rows per collection
MaxNow == 2         \* last clock reading of a run
MaxDrift == 1       \* ticks the clock may advance between two clock reads of one render
MaxInflight == 2    \* requests in flight at once
MaxPresses == 3     \* presses of the user on the list screens in a run
MaxInputs == 3      \* inputs of the user (texts typed, presses) on the create and edit screens in a run
MaxPeerInputs == 3  \* inputs of the user on the second device in a run

\* --------------------------------------------------------------- constants
TicksPerDay == 2    \* (1000 * 60 * 60 * 24) ms, in ticks
UrgentDays == 3     \* the "<= 3" / "> 3" of taskSections

VARIABLES
  now,              \* the device clock, in ticks
  tasks,            \* TaskList: useState<Task[]>
  budgetItems,      \* TaskList: useState<BudgetItem[]>
  items,            \* BudgetScreen: useState<BudgetItem[]>
  renderedAt,       \* clock when the last TaskList render began, -1 before the first
  taskSections,     \* TaskList: the sections of the last render
  budgetSections,   \* TaskList: the budget sections of the last render
  sections,         \* BudgetScreen: the sections of the last render
  activeTab,        \* TaskList: useState<'tasks' | 'budget'>
  dbTasks,          \* remote collection tasks, ordered by created_at descending
  dbBudget,         \* remote collection budget_items, ordered by created_at descending
  net,              \* the requests in flight and the responses not yet handled
  presses,          \* the user's presses on the list screens so far
  screen,           \* the list screen that is mounted: "TaskList" or "BudgetScreen"
  handled,          \* the response or press the last step's handler consumed, NoResponse otherwise
  addBudget,        \* AddBudgetScreen: title, amount, type, loading, error
  addTask,          \* AddTaskScreen: title, deadline, loading, and the last Alert
  signup,           \* SignupScreen: password, loading, passwordError
  editBudget,       \* EditBudgetScreen: id, title, amount, type, loading, error, success
  editItem,         \* EditBudgetItem: id, item, loading
  editTask,         \* EditTask: id, task, category, loading
  peer,             \* the edit screen of a second device of the same user
  rpc,              \* the requests of the create and edit screens in flight
  router,           \* the navigation calls made so far
  timers,           \* the pending setTimeout callbacks, counted per kind
  storage,          \* AsyncStorage: themePreference and currencyPreference
  isDark,           \* the mounted screen's useState(false) theme flag
  login,            \* LoginScreen: loading, and the last alert
  root,             \* RootLayout: isReady, session, and where prepare() stands
  auth              \* supabase.auth: the session, and the events not yet delivered

viewVars == <<now, renderedAt, taskSections, budgetSections, sections>>

localVars == <<tasks, budgetItems, items>>

listVars == <<activeTab, dbTasks, dbBudget, net, presses, screen, handled>>

formVars == <<addBudget, addTask, signup, editBudget, editItem, editTask, peer, rpc, router, timers>>

appVars == <<storage, isDark, login, root, auth>>

vars == <<now, tasks, budgetItems, items, renderedAt, taskSections, budgetSections, sections,
          activeTab, dbTasks, dbBudget, net, presses, screen, handled,
          addBudget, addTask, signup, editBudget, editItem, editTask, peer, rpc, router, timers,
          storage, isDark, login, root, auth>>

\* ---------------------------------------------------------------- helpers
RowIds == 1..MaxRows

Range(s) == {s[i] : i \in 1..Len(s)}

Ids(s) == {s[i].id : i \in 1..Len(s)}

\* Array.prototype.filter
RECURSIVE Filter(_, _)
Filter(s, keep) ==
  IF s = <<>> THEN <<>>
  ELSE IF Head(s) \in keep THEN <<Head(s)>> \o Filter(Tail(s), keep)
       ELSE Filter(Tail(s), keep)

\* Math.ceil(a / b) for b > 0
Ceil(a, b) == -((-a) \div b)

\* ------------------------------------------------------ texts and numbers
\* a text is a sequence of one-character strings
WhiteSpace == {" ", "\t", "\n"}

Digits == <<"0", "1", "2", "3", "4", "5", "6", "7", "8", "9">>

IsDigit(c) == \E i \in 1..10 : Digits[i] = c

DigitVal(c) == (CHOOSE i \in 1..10 : Digits[i] = c) - 1

HexLetters == <<"a", "b", "c", "d", "e", "f">>

HexUpper == <<"A", "B", "C", "D", "E", "F">>

IsHexDigit(c) == IsDigit(c) \/ \E i \in 1..6 : HexLetters[i] = c \/ HexUpper[i] = c

HexVal(c) ==
  IF IsDigit(c) THEN DigitVal(c)
  ELSE 9 + (CHOOSE i \in 1..6 : HexLetters[i] = c \/ HexUpper[i] = c)

RECURSIVE TrimStart(_)
TrimStart(t) == IF t # <<>> /\ Head(t) \in WhiteSpace THEN TrimStart(Tail(t)) ELSE t

RECURSIVE TrimEnd(_)
TrimEnd(t) ==
  IF t # <<>> /\ t[Len(t)] \in WhiteSpace THEN TrimEnd(SubSeq(t, 1, Len(t) - 1)) ELSE t

\* String.prototype.trim
Trim(t) == TrimEnd(TrimStart(t))

StartsWith(t, p) == Len(t) >= Len(p) /\ SubSeq(t, 1, Len(p)) = p

Drop(t, n) == SubSeq(t, n + 1, Len(t))

\* the longest prefix of t made of characters that satisfy Is
RECURSIVE DigitRun(_)
DigitRun(t) == IF t # <<>> /\ IsDigit(Head(t)) THEN 1 + DigitRun(Tail(t)) ELSE 0

\* a JavaScript number: NaN, an infinity, or the finite value
\* (-1)^neg * m * 10^e with m not divisible by 10 (zero is m = 0, e = 0;
\* -0 is kept as 0, as JSON and the store do)
NaNValue == [k |-> "nan", neg |-> FALSE, m |-> 0, e |-> 0]

Infinite(neg) == [k |-> "inf", neg |-> neg, m |-> 0, e |-> 0]

RECURSIVE Finite(_, _, _)
Finite(neg, m, e) ==
  IF m = 0 THEN [k |-> "fin", neg |-> FALSE, m |-> 0, e |-> 0]
  ELSE IF m % 10 = 0 THEN Finite(neg, m \div 10, e + 1)
  ELSE [k |-> "fin", neg |-> neg, m |-> m, e |-> e]

\* the value of a run of digits in the given radix, most significant first
RECURSIVE RadixValue(_, _)
RadixValue(t, radix) ==
  IF t = <<>> THEN 0
  ELSE RadixValue(SubSeq(t, 1, Len(t) - 1), radix) * radix + HexVal(t[Len(t)])

InfinityText == <<"I", "n", "f", "i", "n", "i", "t", "y">>

\* the longest prefix of t that is a StrDecimalLiteral: ok tells whether
\* there is one, val is its value and rest the text after it
DecimalPrefix(t) ==
  LET signed == t # <<>> /\ Head(t) \in {"+", "-"}
      neg == signed /\ Head(t) = "-"
      u == IF signed THEN Tail(t) ELSE t
      ni == DigitRun(u)
      afterInt == Drop(u, ni)
      dotted == afterInt # <<>> /\ Head(afterInt) = "."
      nf == IF dotted THEN DigitRun(Tail(afterInt)) ELSE 0
      \* "5." and ".5" are literals, "." alone is not
      hasDot == dotted /\ (ni > 0 \/ nf > 0)
      afterFrac == IF hasDot THEN Drop(afterInt, 1 + nf) ELSE afterInt
      mant == RadixValue(SubSeq(u, 1, ni) \o (IF hasDot THEN SubSeq(afterInt, 2, 1 + nf) ELSE <<>>), 10)
      fracLen == IF hasDot THEN nf ELSE 0
      hasE == afterFrac # <<>> /\ Head(afterFrac) \in {"e", "E"}
      afterE == IF hasE THEN Tail(afterFrac) ELSE <<>>
      expSigned == afterE # <<>> /\ Head(afterE) \in {"+", "-"}
      expNeg == expSigned /\ Head(afterE) = "-"
      expDigits == IF expSigned THEN Tail(afterE) ELSE afterE
      ne == DigitRun(expDigits)
      hasExp == hasE /\ ne > 0
      expVal == IF hasExp THEN RadixValue(SubSeq(expDigits, 1, ne), 10) ELSE 0
      exp == IF expNeg THEN -expVal ELSE expVal
  IN IF StartsWith(u, InfinityText)
     THEN [ok |-> TRUE, val |-> Infinite(neg), rest |-> Drop(u, Len(InfinityText))]
     ELSE IF ni = 0 /\ ~hasDot
     THEN [ok |-> FALSE, val |-> NaNValue, rest |-> t]
     ELSE [ok |-> TRUE, val |-> Finite(neg, mant, exp - fracLen),
           rest |-> IF hasExp THEN Drop(expDigits, ne) ELSE afterFrac]

\* parseFloat(text): the leading white space is skipped and the longest
\* decimal literal that begins the text is the value; the rest is ignored
parseFloat(t) == DecimalPrefix(TrimStart(t)).val

\* the radix of a 0x / 0o / 0b literal, 0 when t is not one
NonDecimalRadix(t) ==
  IF Len(t) < 3 \/ t[1] # "0" THEN 0
  ELSE IF t[2] \in {"x", "X"} THEN 16
  ELSE IF t[2] \in {"o", "O"} THEN 8
  ELSE IF t[2] \in {"b", "B"} THEN 2
  ELSE 0

\* Number(text): the trimmed text is empty (0), a non-decimal literal, or a
\* decimal literal that is the whole text; anything else is NaN
Number(t) ==
  LET u == Trim(t)
      radix == NonDecimalRadix(u)
      body == Drop(u, 2)
      p == DecimalPrefix(u)
  IN IF u = <<>> THEN Finite(FALSE, 0, 0)
     ELSE IF radix # 0
     THEN IF \A i \in 1..Len(body) : IsHexDigit(body[i]) /\ HexVal(body[i]) < radix
          THEN Finite(FALSE, RadixValue(body, radix), 0)
          ELSE NaNValue
     ELSE IF p.ok /\ p.rest = <<>> THEN p.val
     ELSE NaNValue

isNaN(v) == v.k = "nan"

\* the decimal digits of a natural number
RECURSIVE NatText(_)
NatText(n) == IF n < 10 THEN <<Digits[n + 1]>> ELSE NatText(n \div 10) \o <<Digits[(n % 10) + 1]>>

RECURSIVE Zeros(_)
Zeros(n) == IF n <= 0 THEN <<>> ELSE <<"0">> \o Zeros(n - 1)

\* Number.prototype.toString for the magnitudes that print without exponent
toString(v) ==
  IF v.k = "nan" THEN <<"N", "a", "N">>
  ELSE IF v.k = "inf" THEN (IF v.neg THEN <<"-">> ELSE <<>>) \o InfinityText
  ELSE LET ds == NatText(v.m)
           body == IF v.e >= 0 THEN ds \o Zeros(v.e)
                   ELSE IF Len(ds) > -v.e
                   THEN SubSeq(ds, 1, Len(ds) + v.e) \o <<".">> \o SubSeq(ds, Len(ds) + v.e + 1, Len(ds))
                   ELSE <<"0", ".">> \o Zeros(-v.e - Len(ds)) \o ds
       IN (IF v.neg THEN <<"-">> ELSE <<>>) \o body

\* ------------------------------------------------------------- data model
\* A deadline as the Task row holds it: absent (null / undefined), the empty
\* string, a string Date cannot parse, or a string Date parses to instant t.
NoDeadline == [k |-> "none", t |-> 0]
EmptyDeadline == [k |-> "empty", t |-> 0]
InvalidDeadline == [k |-> "invalid", t |-> 0]
DateDeadline(t) == [k |-> "date", t |-> t]

DeadlineInstants == {-3, 6, 7}

Deadlines == {NoDeadline, EmptyDeadline, InvalidDeadline} \cup {DateDeadline(t) : t \in DeadlineInstants}

BudgetTypes == {"income", "outcome"}

Task(id, title, completed, category, deadline) ==
  [id |-> id, title |-> title, completed |-> completed, category |-> category,
   deadline |-> deadline]

\* null, as the store returns a column that was written as null
NoCategory == "null"

TaskRows(id) == {Task(id, <<"a">>, c, NoCategory, d) : c \in BOOLEAN, d \in Deadlines}

BudgetItem(id, title, amount, type, currency) ==
  [id |-> id, title |-> title, amount |-> amount, type |-> type, currency |-> currency]

BudgetViewRows(id) == {BudgetItem(id, <<"a">>, Finite(FALSE, id, 0), ty, "USD") : ty \in BudgetTypes}

\* the forms as their screens mount them
FreshAddBudget ==
  [title |-> <<>>, amount |-> <<>>, type |-> "income", currency |-> "USD",
   loading |-> FALSE, error |-> ""]

FreshAddTask == [title |-> <<>>, deadline |-> EmptyDeadline, loading |-> FALSE, alert |-> ""]

FreshSignup == [password |-> <<>>, loading |-> FALSE, passwordError |-> ""]

FreshEditBudget(id) ==
  [id |-> id, title |-> <<>>, amount |-> <<>>, type |-> "income", loading |-> FALSE,
   error |-> "", success |-> ""]

NoItem == [id |-> 0]

FreshEditItem(id) == [id |-> id, item |-> NoItem, loading |-> TRUE]

FreshEditTask(id) == [id |-> id, task |-> NoItem, category |-> "", loading |-> TRUE]

\* the second device before it opens an edit screen
NoPeer ==
  [screen |-> "none", id |-> 0, title |-> <<>>, amount |-> <<>>, type |-> "income",
   completed |-> FALSE, category |-> "", loaded |-> FALSE, loading |-> FALSE,
   error |-> "", success |-> "", back |-> 0, inputs |-> 0]

NoTimers == [back |-> 0, clearError |-> 0]

\* no create or edit screen is mounted and none has been used
NoPreference == "null"

NoSession == 0

\* useState('') x 2 and useState(false) of LoginScreen; alert is the last alert()
FreshLogin == [loading |-> FALSE, alert |-> ""]

\* RootLayout before prepare() has run past its first await
FreshRoot == [pc |-> "getSession", isReady |-> FALSE, session |-> NoSession,
              subscribed |-> FALSE, splash |-> TRUE]

\* the service announces a change of the session, to the listener RootLayout
\* has subscribed if there is one
Announce(session) ==
  auth' = [session |-> session, last |-> session,
           events |-> IF root.subscribed THEN Append(auth.events, session) ELSE auth.events]

NoNotification == -1

\* nobody is signed in, no change of the session has been announced (last),
\* and no notification waits for a listener
SignedOut == [session |-> NoSession, last |-> NoNotification, events |-> <<>>]

AppIdle ==
  /\ storage = [themePreference |-> NoPreference, currencyPreference |-> NoPreference,
                reading |-> FALSE]
  /\ isDark = FALSE
  /\ login = FreshLogin
  /\ root = FreshRoot
  /\ auth = SignedOut

FormsIdle ==
  /\ addBudget = FreshAddBudget
  /\ addTask = FreshAddTask
  /\ signup = FreshSignup
  /\ editBudget = FreshEditBudget(0)
  /\ editItem = FreshEditItem(0)
  /\ editTask = FreshEditTask(0)
  /\ peer = NoPeer
  /\ rpc = {}
  /\ router = <<>>
  /\ timers = NoTimers

\* the task lists a read can return: newest first, ids being assigned in
\* creation order
RECURSIVE TaskLists(_)
TaskLists(n) ==
  IF n = 0 THEN {<<>>}
  ELSE TaskLists(n - 1) \cup {<<r>> \o l : r \in TaskRows(n), l \in TaskLists(n - 1)}

RECURSIVE BudgetViewLists(_)
BudgetViewLists(n) ==
  IF n = 0 THEN {<<>>}
  ELSE BudgetViewLists(n - 1) \cup {<<r>> \o l : r \in BudgetViewRows(n), l \in BudgetViewLists(n - 1)}

\* ---------------------------------------------------- derived view builders
\* JavaScript truthiness of task.deadline
Truthy(deadline) == deadline.k \in {"invalid", "date"}

NaN == [nan |-> TRUE, v |-> 0]
Num(v) == [nan |-> FALSE, v |-> v]

\* new Date(deadline).getTime() - new Date().getTime(), then Math.ceil of the days
getDaysRemaining(deadline, clock) ==
  IF deadline.k = "date" THEN Num(Ceil(deadline.t - clock, TicksPerDay)) ELSE NaN

\* x <= n and x > n of JavaScript: both false for NaN
JsLeq(x, n) == ~x.nan /\ x.v <= n
JsGt(x, n) == ~x.nan /\ x.v > n

ongoingTasks_all(ts) == ts
ongoingTasks(ts) == Filter(ts, {t \in Range(ts) : ~t.completed})

completedTasks_oldestFirst(ts) ==
  LET done == Filter(ts, {t \in Range(ts) : t.completed})
  IN [i \in 1..Len(done) |-> done[Len(done) + 1 - i]]
completedTasks(ts) == Filter(ts, {t \in Range(ts) : t.completed})

IsUrgent_lt(task, clock) ==
  Truthy(task.deadline) /\ JsLeq(getDaysRemaining(task.deadline, clock), UrgentDays - 1)
IsUrgent(task, clock) ==
  Truthy(task.deadline) /\ JsLeq(getDaysRemaining(task.deadline, clock), UrgentDays)

IsOngoing(task, clock) ==
  ~Truthy(task.deadline) \/ JsGt(getDaysRemaining(task.deadline, clock), UrgentDays)

\* the clock is read anew by every getDaysRemaining call: clockU is the
\* reading of the Urgent filter, clockO that of the later Ongoing filter
TaskSections(ts, clockU, clockO) ==
  << [title |-> "Urgent",
      data |-> Filter(ongoingTasks(ts), {t \in Range(ts) : IsUrgent(t, clockU)})],
     [title |-> "Ongoing",
      data |-> Filter(ongoingTasks(ts), {t \in Range(ts) : IsOngoing(t, clockO)})],
     [title |-> "Done", data |-> completedTasks(ts)] >>

outcomeItems_income(bs) == Filter(bs, {b \in Range(bs) : b.type = "income"})
incomeItems(bs) == Filter(bs, {b \in Range(bs) : b.type = "income"})
outcomeItems(bs) == Filter(bs, {b \in Range(bs) : b.type = "outcome"})

BudgetSections(bs) ==
  << [title |-> "Income", data |-> incomeItems(bs)],
     [title |-> "Outcome", data |-> outcomeItems(bs)] >>

\* ------------------------------------------------------ specification: views
InitView ==
  /\ now = 0
  /\ tasks \in TaskLists(MaxRows)
  /\ budgetItems \in BudgetViewLists(MaxRows)
  /\ items = budgetItems
  /\ renderedAt = -1
  /\ taskSections = <<>>
  /\ budgetSections = <<>>
  /\ sections = <<>>
  /\ activeTab = "tasks"
  /\ dbTasks = tasks
  /\ dbBudget = budgetItems
  /\ net = {}
  /\ presses = 0
  /\ screen = "TaskList"
  /\ handled = [op |-> "none"]
  /\ FormsIdle
  /\ AppIdle

Tick ==
  /\ now < MaxNow
  /\ now' = now + 1
  /\ UNCHANGED <<appVars, localVars, listVars, formVars, renderedAt, taskSections, budgetSections, sections>>

RenderTaskList ==
  \E d1 \in 0..MaxDrift, d2 \in 0..MaxDrift :
    /\ now + d1 + d2 <= MaxNow
    /\ renderedAt' = now
    /\ taskSections' = TaskSections(tasks, now + d1, now + d1 + d2)
    /\ budgetSections' = BudgetSections(budgetItems)
    /\ now' = now + d1 + d2
    /\ UNCHANGED <<appVars, localVars, listVars, formVars, sections>>

RenderBudgetScreen ==
  /\ sections' = BudgetSections(items)
  /\ UNCHANGED <<appVars, localVars, listVars, formVars, now, renderedAt, taskSections, budgetSections>>

NextView == Tick \/ RenderTaskList \/ RenderBudgetScreen

SpecView == InitView /\ [][NextView]_vars

\* --------------------------------------------------------- claims: views
Count(s, x) == Cardinality({i \in 1..Len(s) : s[i] = x})

SectionData(secs, title) ==
  IF \E i \in 1..Len(secs) : secs[i].title = title
  THEN (CHOOSE sec \in Range(secs) : sec.title = title).data
  ELSE <<>>

InSection(secs, title, row) == Count(SectionData(secs, title), row) > 0

Occurrences(secs, row) ==
  LET RECURSIVE Sum(_)
      Sum(i) == IF i = 0 THEN 0 ELSE Count(secs[i].data, row) + Sum(i - 1)
  IN Sum(Len(secs))

TaskListRendered == renderedAt >= 0

BudgetScreenRendered == sections # <<>>

\* days-remaining of a parsable deadline when the render began
DaysAtRender(task) == Ceil(task.deadline.t - renderedAt, TicksPerDay)

\* C1: every incomplete task whose deadline is at most 3 days away when the
\* list is rendered, overdue ones included, is listed under "Urgent" and is
\* not listed under "Ongoing".
C1_UrgentWithinThreeDays ==
  TaskListRendered =>
    \A t \in Range(tasks) :
      (~t.completed /\ t.deadline.k = "date" /\ DaysAtRender(t) <= 3)
        => /\ InSection(taskSections, "Urgent", t)
           /\ ~InSection(taskSections, "Ongoing", t)

C1_Witness ==
  /\ TaskListRendered
  /\ \E t \in Range(tasks) :
       /\ ~t.completed /\ t.deadline.k = "date" /\ DaysAtRender(t) < 0
       /\ InSection(taskSections, "Urgent", t)
  /\ \E t \in Range(tasks) :
       /\ ~t.completed /\ t.deadline.k = "date" /\ DaysAtRender(t) = 3
       /\ InSection(taskSections, "Urgent", t)

\* C2: the task sections are Urgent, Ongoing, Done in that order, every task
\* of the local list is in exactly one of them, and every incomplete task
\* that is not under "Urgent" is under "Ongoing".
C2_ThreeWayPartition ==
  TaskListRendered =>
    /\ [i \in 1..Len(taskSections) |-> taskSections[i].title] = <<"Urgent", "Ongoing", "Done">>
    /\ \A t \in Range(tasks) :
         /\ Occurrences(taskSections, t) = 1
         /\ (~t.completed /\ ~InSection(taskSections, "Urgent", t))
              => InSection(taskSections, "Ongoing", t)

\* C3: every completed task is listed under "Done" and under neither
\* "Urgent" nor "Ongoing", whatever its deadline.
C3_CompletedIsDone ==
  TaskListRendered =>
    \A t \in Range(tasks) :
      t.completed =>
        /\ InSection(taskSections, "Done", t)
        /\ ~InSection(taskSections, "Urgent", t)
        /\ ~InSection(taskSections, "Ongoing", t)

C3_Witness ==
  /\ TaskListRendered
  /\ \E t \in Range(tasks) :
       /\ t.completed /\ t.deadline.k = "date" /\ DaysAtRender(t) <= 3
       /\ InSection(taskSections, "Done", t)
  /\ \E t \in Range(tasks) :
       /\ t.completed /\ t.deadline.k \in {"none", "invalid"}
       /\ InSection(taskSections, "Done", t)

BudgetPartition(secs, bs) ==
  /\ [i \in 1..Len(secs) |-> secs[i].title] = <<"Income", "Outcome">>
  /\ \A b \in Range(bs) :
       /\ Occurrences(secs, b) = 1
       /\ b.type = "income" => InSection(secs, "Income", b)
       /\ b.type = "outcome" => InSection(secs, "Outcome", b)

\* C4: on both budget list screens every budget item of the local list is
\* in exactly one of "Income" and "Outcome", the one its type names.
C4_BudgetPartition ==
  /\ TaskListRendered => BudgetPartition(budgetSections, budgetItems)
  /\ BudgetScreenRendered => BudgetPartition(sections, items)

C4_Witness ==
  /\ TaskListRendered /\ BudgetScreenRendered
  /\ \E b \in Range(budgetItems) : b.type = "income" /\ InSection(budgetSections, "Income", b)
  /\ \E b \in Range(items) : b.type = "outcome" /\ InSection(sections, "Outcome", b)

\* ------------------------------------------- list screens and remote store
\* the three row lists the list screens hold
Lists == {"tasks", "budgetItems", "items"}

IsTaskList(L) == L = "tasks"

Local(L) == IF L = "tasks" THEN tasks ELSE IF L = "budgetItems" THEN budgetItems ELSE items

SetLocal(L, rows) ==
  /\ tasks' = IF L = "tasks" THEN rows ELSE tasks
  /\ budgetItems' = IF L = "budgetItems" THEN rows ELSE budgetItems
  /\ items' = IF L = "items" THEN rows ELSE items

\* the collection behind a list: from('tasks') / from('budget_items')
Db(L) == IF IsTaskList(L) THEN dbTasks ELSE dbBudget

SetDb(L, rows) ==
  /\ dbTasks' = IF IsTaskList(L) THEN rows ELSE dbTasks
  /\ dbBudget' = IF IsTaskList(L) THEN dbBudget ELSE rows

\* the list on display: that of TaskList's active tab, or BudgetScreen's items
Shown(L) ==
  \/ L = "items" /\ screen = "BudgetScreen"
  \/ L = "tasks" /\ screen = "TaskList" /\ activeTab = "tasks"
  \/ L = "budgetItems" /\ screen = "TaskList" /\ activeTab = "budget"

NotToggle == [id |-> 0, fields |-> {}, completed |-> FALSE, type |-> ""]

\* a request: op on the collection of list, st "sent" until the store has
\* answered with "ok" or "error"; data is the rows a select returned; toggle
\* is, on a select, the toggle update whose handler issued it
Request(rid, op, L, id, fields, completed, type, toggle) ==
  [rid |-> rid, op |-> op, list |-> L, id |-> id, fields |-> fields,
   completed |-> completed, type |-> type, st |-> "sent", data |-> <<>>, toggle |-> toggle]

NoResponse == [op |-> "none"]

CanSend == Cardinality(net) < MaxInflight

\* a press of the user: counted, and possible while the run's count allows
Press == presses < MaxPresses /\ presses' = presses + 1

NewRid == CHOOSE n \in 1..(MaxInflight + 1) : n \notin {r.rid : r \in net}

\* .select('*').order('created_at', { ascending: false })
SelectRequest(L, toggle) == Request(NewRid, "select", L, 0, {}, FALSE, "", toggle)

\* .update({ completed: !completed }).eq('id', taskId)
UpdateCompleted(L, id, completed) == Request(NewRid, "update", L, id, {"completed"}, ~completed, "", NotToggle)

\* .update({ type: currentType === 'income' ? 'outcome' : 'income' }).eq('id', id)
UpdateType(L, id, currentType) ==
  Request(NewRid, "update", L, id, {"type"}, FALSE,
          IF currentType = "income" THEN "outcome" ELSE "income", NotToggle)

\* .delete().eq('id', id)
DeleteRequest(L, id) == Request(NewRid, "delete", L, id, {}, FALSE, "", NotToggle)

\* the toggle a re-fetch is issued for
ToggleOf(r) == [id |-> r.id, fields |-> r.fields, completed |-> r.completed, type |-> r.type]

\* a partial update: only the named fields of the row change
Patch(row, r) ==
  [f \in DOMAIN row |-> IF f \in r.fields THEN r[f] ELSE row[f]]

UpdateRows_all(rows, r) ==
  [i \in 1..Len(rows) |-> Patch(rows[i], r)]

UpdateRows(rows, r) ==
  [i \in 1..Len(rows) |-> IF rows[i].id = r.id THEN Patch(rows[i], r) ELSE rows[i]]

DeleteRows(rows, id) == Filter(rows, {row \in Range(rows) : row.id # id})

\* prev.filter(row => row.id !== id)
RemoveLocal_none(rows, id) == rows
RemoveLocal(rows, id) == Filter(rows, {row \in Range(rows) : row.id # id})

\* fetchTasks / fetchBudgetItems: issue the select
Fetch(L, toggle) == net' = net \cup {SelectRequest(L, toggle)}

\* the remote store answers a request: it fails, or it applies the request
\* to the collection as it is now
StoreFails(r) ==
  /\ r \in net /\ r.st = "sent"
  /\ net' = (net \ {r}) \cup {[r EXCEPT !.st = "error"]}
  /\ handled' = NoResponse
  /\ UNCHANGED <<appVars, viewVars, formVars, localVars, activeTab, dbTasks, dbBudget, presses, screen>>

StoreSelects(r) ==
  /\ r \in net /\ r.st = "sent" /\ r.op = "select"
  /\ net' = (net \ {r}) \cup {[r EXCEPT !.st = "ok", !.data = Db(r.list)]}
  /\ handled' = NoResponse
  /\ UNCHANGED <<appVars, viewVars, formVars, localVars, activeTab, dbTasks, dbBudget, presses, screen>>

StoreUpdates(r) ==
  /\ r \in net /\ r.st = "sent" /\ r.op = "update"
  /\ SetDb(r.list, UpdateRows(Db(r.list), r))
  /\ net' = (net \ {r}) \cup {[r EXCEPT !.st = "ok"]}
  /\ handled' = NoResponse
  /\ UNCHANGED <<appVars, viewVars, formVars, localVars, activeTab, presses, screen>>

StoreDeletes(r) ==
  /\ r \in net /\ r.st = "sent" /\ r.op = "delete"
  /\ SetDb(r.list, DeleteRows(Db(r.list), r.id))
  /\ net' = (net \ {r}) \cup {[r EXCEPT !.st = "ok"]}
  /\ handled' = NoResponse
  /\ UNCHANGED <<appVars, viewVars, formVars, localVars, activeTab, presses, screen>>

\* the tab bar: setActiveTab, then the effect on [activeTab] fetches
SetActiveTab(tab) ==
  /\ screen = "TaskList" /\ tab # activeTab
  /\ CanSend
  /\ Press
  /\ activeTab' = tab
  /\ Fetch(IF tab = "tasks" THEN "tasks" ELSE "budgetItems", NotToggle)
  /\ handled' = NoResponse
  /\ UNCHANGED <<appVars, viewVars, formVars, localVars, dbTasks, dbBudget, screen>>

\* the checkbox / the type icon of a shown row: the update is sent
PressToggle(L, i) ==
  /\ Shown(L) /\ i \in 1..Len(Local(L))
  /\ CanSend
  /\ Press
  /\ net' = net \cup {IF IsTaskList(L)
                      THEN UpdateCompleted(L, Local(L)[i].id, Local(L)[i].completed)
                      ELSE UpdateType(L, Local(L)[i].id, Local(L)[i].type)}
  /\ handled' = NoResponse
  /\ UNCHANGED <<appVars, viewVars, formVars, localVars, activeTab, dbTasks, dbBudget, screen>>

\* the trash icon of a shown row: the delete is sent
PressDelete(L, i) ==
  /\ Shown(L) /\ i \in 1..Len(Local(L))
  /\ CanSend
  /\ Press
  /\ net' = net \cup {DeleteRequest(L, Local(L)[i].id)}
  /\ handled' = NoResponse
  /\ UNCHANGED <<appVars, viewVars, formVars, localVars, activeTab, dbTasks, dbBudget, screen>>

FetchDone_clear(r) ==
  /\ r \in net /\ r.op = "select" /\ r.st # "sent"
  /\ SetLocal(r.list, r.data)
  /\ net' = net \ {r}
  /\ handled' = r
  /\ UNCHANGED <<appVars, viewVars, formVars, activeTab, dbTasks, dbBudget, presses, screen>>

\* the rest of fetchTasks / fetchBudgetItems, after the await
FetchDone(r) ==
  /\ r \in net /\ r.op = "select" /\ r.st # "sent"
  /\ IF r.st = "ok" THEN SetLocal(r.list, r.data) ELSE UNCHANGED localVars
  /\ net' = net \ {r}
  /\ handled' = r
  /\ UNCHANGED <<appVars, viewVars, formVars, activeTab, dbTasks, dbBudget, presses, screen>>

ToggleDone_patch(r) ==
  /\ r \in net /\ r.op = "update" /\ r.st # "sent"
  /\ IF r.st = "ok" THEN SetLocal(r.list, UpdateRows(Local(r.list), r)) ELSE UNCHANGED localVars
  /\ net' = net \ {r}
  /\ handled' = r
  /\ UNCHANGED <<appVars, viewVars, formVars, activeTab, dbTasks, dbBudget, presses, screen>>

\* the rest of toggleTaskCompletion / toggleBudgetItemType / toggleItemType
ToggleDone(r) ==
  /\ r \in net /\ r.op = "update" /\ r.st # "sent"
  /\ net' = IF r.st = "ok"
            THEN (net \ {r}) \cup {Request(r.rid, "select", r.list, 0, {}, FALSE, "", ToggleOf(r))}
            ELSE net \ {r}
  /\ handled' = r
  /\ UNCHANGED <<appVars, viewVars, formVars, localVars, activeTab, dbTasks, dbBudget, presses, screen>>

\* the rest of deleteTask / deleteBudgetItem / deleteItem
DeleteDone(r) ==
  /\ r \in net /\ r.op = "delete" /\ r.st # "sent"
  /\ IF r.st = "ok" THEN SetLocal(r.list, RemoveLocal(Local(r.list), r.id)) ELSE UNCHANGED localVars
  /\ net' = net \ {r}
  /\ handled' = r
  /\ UNCHANGED <<appVars, viewVars, formVars, activeTab, dbTasks, dbBudget, presses, screen>>

toggleTaskCompletion == \E i \in 1..Len(tasks) : PressToggle("tasks", i)
toggleBudgetItemType == \E i \in 1..Len(budgetItems) : PressToggle("budgetItems", i)
toggleItemType == \E i \in 1..Len(items) : PressToggle("items", i)
deleteTask == \E i \in 1..Len(tasks) : PressDelete("tasks", i)
deleteBudgetItem == \E i \in 1..Len(budgetItems) : PressDelete("budgetItems", i)
deleteItem == \E i \in 1..Len(items) : PressDelete("items", i)

\* the mounted screen has sent the read of its mount effect: TaskList that
\* of its tasks tab, BudgetScreen that of its items
InitList ==
  /\ now = 0 /\ renderedAt = -1
  /\ taskSections = <<>> /\ budgetSections = <<>> /\ sections = <<>>
  /\ tasks = <<>> /\ budgetItems = <<>> /\ items = <<>>
  /\ activeTab = "tasks"
  /\ dbTasks \in {l \in TaskLists(MaxRows) : \A t \in Range(l) : t.deadline = NoDeadline}
  /\ dbBudget \in BudgetViewLists(MaxRows)
  /\ Len(dbTasks) = MaxRows /\ Len(dbBudget) = MaxRows
  /\ presses = 0
  /\ handled = NoResponse
  /\ FormsIdle
  /\ AppIdle
  /\ screen \in {"TaskList", "BudgetScreen"}
  /\ net = {Request(1, "select", IF screen = "TaskList" THEN "tasks" ELSE "items",
                    0, {}, FALSE, "", NotToggle)}

NextList ==
  \/ \E r \in net : StoreFails(r)
  \/ \E r \in net : StoreSelects(r)
  \/ \E r \in net : StoreUpdates(r)
  \/ \E r \in net : StoreDeletes(r)
  \/ \E tab \in {"tasks", "budget"} : SetActiveTab(tab)
  \/ toggleTaskCompletion
  \/ toggleBudgetItemType
  \/ toggleItemType
  \/ deleteTask
  \/ deleteBudgetItem
  \/ deleteItem
  \/ \E r \in net : FetchDone(r)
  \/ \E r \in net : ToggleDone(r)
  \/ \E r \in net : DeleteDone(r)

Spec == InitList /\ [][NextList]_vars

\* ------------------------------------------------- claims: list screens
\* the step consumes response r: its handler runs
Handles(r) == r \in net /\ r.st # "sent" /\ r \notin net'

Selects(reqs) == {r \in reqs : r.op = "select"}

OthersUnchanged(L) == \A M \in Lists \ {L} : Local(M)' = Local(M)

\* the new value of the update r shows in the rows
Visible(rows, r) ==
  \E i \in 1..Len(rows) :
    /\ rows[i].id = r.id
    /\ IF "completed" \in r.fields THEN rows[i].completed = r.completed
       ELSE rows[i].type = r.type

\* C5: when a delete of a list screen succeeds, its handler removes the row
\* with that id from the local list in that step, keeps the other rows in
\* their order, and issues no re-fetch.
C5_DeletePatchesLocally ==
  [][\A r \in net :
       (Handles(r) /\ r.op = "delete" /\ r.st = "ok") =>
         /\ Local(r.list)' = SelectSeq(Local(r.list), LAMBDA row : row.id # r.id)
         /\ r.id \notin Ids(Local(r.list)')
         /\ OthersUnchanged(r.list)
         /\ net' = net \ {r}]_vars

C5_Witness ==
  /\ handled.op = "delete" /\ handled.st = "ok"
  /\ handled.id \notin Ids(Local(handled.list))
  /\ handled.id \notin Ids(Db(handled.list))
  /\ Local(handled.list) # <<>>
  /\ Selects(net) = {}

\* C6 as stated: a successful toggle's handler leaves the local lists alone
\* and issues a re-fetch, and while that toggle or its re-fetch is pending
\* its new value comes to show in the local list only in the step that
\* applies the response of that very re-fetch.
C6_VisibleOnlyByOwnRefetch ==
  [][/\ \A r \in net :
          (Handles(r) /\ r.op = "update" /\ r.st = "ok") =>
            /\ UNCHANGED localVars
            /\ \E q \in net' \ net : q.op = "select" /\ q.list = r.list /\ q.st = "sent"
     /\ \A r \in net :
          LET t == IF r.op = "update" THEN ToggleOf(r) ELSE r.toggle
          IN (/\ \/ r.op = "update" /\ r.st = "ok"
                 \/ r.op = "select" /\ r.toggle.id # 0
              /\ ~Visible(Local(r.list), t)
              /\ Visible(Local(r.list)', t))
               => \E q \in net : Handles(q) /\ q.op = "select" /\ q.st = "ok"
                                 /\ q.list = r.list /\ q.toggle = t]_vars

\* C6 as amended: a successful toggle's handler leaves the local lists alone
\* and issues one re-fetch of the collection, and the field values of the
\* rows of a local list change only in a step that applies the response of
\* a read of that collection.
C6_VisibleOnlyByARefetch ==
  [][/\ \A r \in net :
          (Handles(r) /\ r.op = "update" /\ r.st = "ok") =>
            /\ UNCHANGED localVars
            /\ \E q \in net' \ net :
                 /\ q.op = "select" /\ q.list = r.list /\ q.st = "sent"
                 /\ net' = (net \ {r}) \cup {q}
     /\ \A L \in Lists :
          (\E i \in 1..Len(Local(L)), j \in 1..Len(Local(L)') :
             Local(L)[i].id = Local(L)'[j].id /\ Local(L)[i] # Local(L)'[j])
            => \E q \in net : Handles(q) /\ q.op = "select" /\ q.st = "ok" /\ q.list = L]_vars

\* a toggle has succeeded, its handler has run and issued the re-fetch, and
\* the local list still shows the old value
C6_Witness ==
  /\ handled.op = "update" /\ handled.st = "ok"
  /\ Visible(Db(handled.list), handled)
  /\ ~Visible(Local(handled.list), handled)
  /\ handled.id \in Ids(Local(handled.list))
  /\ \E q \in net : q.op = "select" /\ q.toggle = ToggleOf(handled)

\* C7: when a read, a toggle update or a delete of a list screen fails, its
\* handler leaves the local lists as they were and sends no request.
C7_FailureChangesNothing ==
  [][\A r \in net :
       (Handles(r) /\ r.st = "error") =>
         /\ UNCHANGED localVars
         /\ net' = net \ {r}]_vars

C7_Witness ==
  /\ handled.op \in {"update", "delete"} /\ handled.st = "error"
  /\ Local(handled.list) # <<>>
  /\ Local(handled.list) = Db(handled.list)
  /\ net = {}

\* ------------------------------------------------- create and edit screens
\* what the user may type
Titles == {<<>>, <<" ">>, <<"a">>}

AmountTexts ==
  { <<>>, <<" ">>, <<"4", "2", ".", "5", "0">>, <<"-", "5">>, <<"0", "x", "1", "0">>,
    <<"1", "2", "a">>, <<"a", "b">>, InfinityText }

TypedDeadlines == {EmptyDeadline, InvalidDeadline, DateDeadline(6)}

LowerCase == {"a", "b", "c", "d", "e", "f", "g", "h", "i", "j", "k", "l", "m",
              "n", "o", "p", "q", "r", "s", "t", "u", "v", "w", "x", "y", "z"}

UpperCase == {"A", "B", "C", "D", "E", "F", "G", "H", "I", "J", "K", "L", "M",
              "N", "O", "P", "Q", "R", "S", "T", "U", "V", "W", "X", "Y", "Z"}

Symbols == {"@", "$", "!", "%", "*", "?", "&"}

PasswordLength == 10

Passwords ==
  { <<>>,
    <<"s", "h", "o", "r", "t", "1", "!">>,
    <<"A", "b", "c", "d", "e", "f", "1", "2", "3", "!">>,
    <<"A", "b", "c", "d", "e", "f", "1", "2", "!">>,
    <<"A", "b", "c", "d", "e", "f", "1", "2", "3", "4", "!">>,
    <<"A", "b", "c", "d", "e", "f", "1", "2", "3", "4">>,
    <<"A", "b", "c", "d", "e", "f", "1", "2", "#", "!">> }

validatePassword_atLeast(password) ==
  LET chars == Range(password)
  IN /\ chars \cap LowerCase # {}
     /\ chars \cap UpperCase # {}
     /\ \E c \in chars : IsDigit(c)
     /\ chars \cap Symbols # {}
     /\ \A c \in chars : c \in LowerCase \cup UpperCase \cup Symbols \/ IsDigit(c)
     /\ Len(password) >= PasswordLength

\* /^(?=.*[a-z])(?=.*[A-Z])(?=.*\d)(?=.*[@$!%*?&])[A-Za-z\d@$!%*?&]{10}$/
validatePassword(password) ==
  LET chars == Range(password)
  IN /\ chars \cap LowerCase # {}
     /\ chars \cap UpperCase # {}
     /\ \E c \in chars : IsDigit(c)
     /\ chars \cap Symbols # {}
     /\ \A c \in chars : c \in LowerCase \cup UpperCase \cup Symbols \/ IsDigit(c)
     /\ Len(password) = PasswordLength

RemoteMessage == "remote error"

UserId == 1

NullNumber == [k |-> "null", neg |-> FALSE, m |-> 0, e |-> 0]

\* JSON.stringify of a request body: NaN and the infinities become null
JsonNumber(v) == IF v.k = "fin" THEN v ELSE NullNumber

\* parseFloat(text) || 0
OrZero(v) == IF v.k = "nan" \/ (v.k = "fin" /\ v.m = 0) THEN Finite(FALSE, 0, 0) ELSE v

NoPayload == [id |-> 0]

NoResult == [user |-> 0, message |-> "", row |-> NoItem]

\* a request of a create or edit screen, with the variables its handler
\* has captured (closure) for the code after the await
Rpc(sc, op, payload, closure) ==
  [screen |-> sc, op |-> op, payload |-> payload, closure |-> closure, st |-> "sent", res |-> NoResult,
   at |-> presses, visit |-> Len(router)]

Answered(r, st, res) == rpc' = (rpc \ {r}) \cup {[r EXCEPT !.st = st, !.res = res]}

\* the id the store gives a new row: rows are kept newest first
NextId(rows) == IF rows = <<>> THEN 1 ELSE rows[1].id + 1

Navigate(call) == router' = Append(router, call) /\ screen' = "none"

Pressed(sc) == handled' = [op |-> "press", screen |-> sc]

\* an input of the user on a create or edit screen: counted, and possible
\* while the run's count allows
Input == presses < MaxInputs /\ presses' = presses + 1

\* what the handlers of the create and edit screens never touch
clientAlone == <<viewVars, localVars, activeTab, dbTasks, dbBudget, net>>

\* the state of the create and edit screens
formScreens == <<addBudget, addTask, signup, editBudget, editItem, editTask, peer>>

\* --- the remote store and the auth service answer
RpcFails(r) ==
  /\ r \in rpc /\ r.st = "sent"
  /\ Answered(r, "error", [NoResult EXCEPT !.message = RemoteMessage])
  /\ handled' = NoResponse
  /\ UNCHANGED <<appVars, viewVars, localVars, activeTab, dbTasks, dbBudget, net, presses, screen,
                 addBudget, addTask, signup, editBudget, editItem, router, timers, editTask, peer>>

RpcGetsUser(r) ==
  /\ r \in rpc /\ r.st = "sent" /\ r.op \in {"getUser", "signUp"}
  /\ Answered(r, "ok", [NoResult EXCEPT !.user = UserId])
  /\ handled' = NoResponse
  /\ UNCHANGED <<appVars, viewVars, localVars, activeTab, dbTasks, dbBudget, net, presses, screen,
                 addBudget, addTask, signup, editBudget, editItem, router, timers, editTask, peer>>

RpcInserts(r) ==
  /\ r \in rpc /\ r.st = "sent" /\ r.op = "insert"
  /\ IF r.screen = "AddBudget"
     THEN /\ Len(dbBudget) < MaxRows
          /\ dbBudget' = <<BudgetItem(NextId(dbBudget), r.payload.title, JsonNumber(r.payload.amount),
                                      r.payload.type, r.payload.currency)>> \o dbBudget
          /\ UNCHANGED dbTasks
     ELSE /\ Len(dbTasks) < MaxRows
          /\ dbTasks' = <<Task(NextId(dbTasks), r.payload.title, FALSE, NoCategory,
                                r.payload.deadline)>> \o dbTasks
          /\ UNCHANGED dbBudget
  /\ Answered(r, "ok", NoResult)
  /\ handled' = NoResponse
  /\ UNCHANGED <<appVars, viewVars, localVars, activeTab, net, presses, screen,
                 addBudget, addTask, signup, editBudget, editItem, router, timers, editTask, peer>>

\* signInWithPassword: the service holds the session of the user and tells
\* the listeners of auth state changes
RpcSignsIn(r) ==
  /\ r \in rpc /\ r.st = "sent" /\ r.op = "signIn"
  /\ Answered(r, "ok", [NoResult EXCEPT !.user = UserId])
  /\ Announce(UserId)
  /\ handled' = NoResponse
  /\ UNCHANGED <<storage, isDark, login, root, clientAlone, presses, screen, formScreens, router, timers>>

\* the request is on from('tasks'), not from('budget_items')
OnTasks(r) == r.screen \in {"EditTask", "Peer:EditTask"}

\* .select('*').eq('id', id).single(): an error unless exactly one row
RpcSelectsOne(r) ==
  /\ r \in rpc /\ r.st = "sent" /\ r.op = "selectOne"
  /\ LET table == IF OnTasks(r) THEN dbTasks ELSE dbBudget
     IN IF r.payload.id \in Ids(table)
        THEN Answered(r, "ok", [NoResult EXCEPT !.row = CHOOSE b \in Range(table) : b.id = r.payload.id])
        ELSE Answered(r, "error", [NoResult EXCEPT !.message = RemoteMessage])
  /\ handled' = NoResponse
  /\ UNCHANGED <<appVars, viewVars, localVars, activeTab, dbTasks, dbBudget, net, presses, screen,
                 addBudget, addTask, signup, editBudget, editItem, router, timers, editTask, peer>>

Written_unlessChanged(rows, payload) ==
  [i \in 1..Len(rows) |->
     IF rows[i].id = payload.id /\ rows[i].title = <<"a">>
     THEN [f \in DOMAIN rows[i] |->
             IF f \notin DOMAIN payload THEN rows[i][f]
             ELSE IF f = "amount" THEN JsonNumber(payload.amount)
             ELSE payload[f]]
     ELSE rows[i]]

\* the rows after the update of payload, which names the row and the fields
Written(rows, payload) ==
  [i \in 1..Len(rows) |->
     IF rows[i].id = payload.id
     THEN [f \in DOMAIN rows[i] |->
             IF f \notin DOMAIN payload THEN rows[i][f]
             ELSE IF f = "amount" THEN JsonNumber(payload.amount)
             ELSE payload[f]]
     ELSE rows[i]]

\* .update({...}).eq('id', id): the named fields of the row are overwritten
RpcUpdates(r) ==
  /\ r \in rpc /\ r.st = "sent" /\ r.op = "update"
  /\ IF OnTasks(r)
     THEN /\ dbTasks' = Written(dbTasks, r.payload)
          /\ UNCHANGED dbBudget
     ELSE /\ dbBudget' = Written(dbBudget, r.payload)
          /\ UNCHANGED dbTasks
  /\ Answered(r, "ok", NoResult)
  /\ handled' = NoResponse
  /\ UNCHANGED <<appVars, viewVars, localVars, activeTab, net, presses, screen,
                 addBudget, addTask, signup, editBudget, editItem, router, timers, editTask, peer>>

\* .delete().eq('id', id): the row is gone, and no error when there was none
RpcDeletes(r) ==
  /\ r \in rpc /\ r.st = "sent" /\ r.op = "delete"
  /\ dbBudget' = Filter(dbBudget, {b \in Range(dbBudget) : b.id # r.payload.id})
  /\ Answered(r, "ok", NoResult)
  /\ handled' = NoResponse
  /\ UNCHANGED <<appVars, viewVars, localVars, activeTab, dbTasks, net, presses, screen,
                 addBudget, addTask, signup, editBudget, editItem, editTask, router, timers, peer>>

\* --- navigation to a screen mounts it afresh
OpenScreen(sc) ==
  /\ screen = "none" /\ Input
  /\ sc \in {"AddBudget", "AddTask", "Signup", "Login"}
  /\ screen' = sc
  /\ addBudget' = IF sc = "AddBudget" THEN FreshAddBudget ELSE addBudget
  /\ addTask' = IF sc = "AddTask" THEN FreshAddTask ELSE addTask
  /\ signup' = IF sc = "Signup" THEN FreshSignup ELSE signup
  /\ login' = IF sc = "Login" THEN FreshLogin ELSE login
  /\ handled' = NoResponse
  /\ UNCHANGED <<storage, isDark, root, auth, viewVars, localVars, activeTab, dbTasks, dbBudget, net,
                 editBudget, editItem, rpc, router, timers, editTask, peer>>

\* the edit screens read their row by id in their mount effect
OpenEdit(sc, id) ==
  /\ screen = "none" /\ Input
  /\ sc \in {"EditBudget", "EditItem", "EditTask"}
  /\ screen' = sc
  /\ editBudget' = IF sc = "EditBudget" THEN FreshEditBudget(id) ELSE editBudget
  /\ editItem' = IF sc = "EditItem" THEN FreshEditItem(id) ELSE editItem
  /\ editTask' = IF sc = "EditTask" THEN FreshEditTask(id) ELSE editTask
  /\ rpc' = rpc \cup {Rpc(sc, "selectOne", [id |-> id], NoPayload)}
  /\ handled' = NoResponse
  /\ UNCHANGED <<appVars, viewVars, localVars, activeTab, dbTasks, dbBudget, net,
                 addBudget, addTask, signup, router, timers, peer>>

\* --- AddBudgetScreen
AddBudgetTypes(title, amount, type) ==
  /\ screen = "AddBudget" /\ Input
  /\ addBudget' = [addBudget EXCEPT !.title = title, !.amount = amount, !.type = type]
  /\ handled' = NoResponse
  /\ UNCHANGED <<appVars, clientAlone, screen, addTask, signup, editBudget, editItem, rpc, router, timers, editTask, peer>>

\* !amount || isNaN(Number(amount)) is false
AmountIsValid(amount) == amount # <<>> /\ ~isNaN(Number(amount))

handleAddBudgetItem_late ==
  /\ screen = "AddBudget" /\ ~addBudget.loading /\ Input
  /\ addBudget' = [addBudget EXCEPT !.error = "", !.loading = TRUE]
  /\ rpc' = rpc \cup {Rpc("AddBudget", "getUser", NoPayload,
                          [title |-> addBudget.title, amount |-> addBudget.amount,
                           type |-> addBudget.type, currency |-> addBudget.currency])}
  /\ Pressed("AddBudget")
  /\ UNCHANGED <<appVars, clientAlone, screen, addTask, signup, editBudget, editItem, router, timers, editTask, peer>>

\* handleAddBudgetItem up to its first await
handleAddBudgetItem ==
  /\ screen = "AddBudget" /\ ~addBudget.loading /\ Input
  /\ IF Trim(addBudget.title) = <<>>
     THEN /\ addBudget' = [addBudget EXCEPT !.error = "Please enter a title"]
          /\ UNCHANGED rpc
     ELSE IF ~AmountIsValid(addBudget.amount)
     THEN /\ addBudget' = [addBudget EXCEPT !.error = "Please enter a valid amount"]
          /\ UNCHANGED rpc
     ELSE /\ addBudget' = [addBudget EXCEPT !.error = "", !.loading = TRUE]
          /\ rpc' = rpc \cup {Rpc("AddBudget", "getUser", NoPayload,
                                  [title |-> addBudget.title, amount |-> addBudget.amount,
                                   type |-> addBudget.type, currency |-> addBudget.currency])}
  /\ Pressed("AddBudget")
  /\ UNCHANGED <<appVars, clientAlone, screen, addTask, signup, editBudget, editItem, router, timers, editTask, peer>>

\* handleAddBudgetItem after getUser: the insert, or 'Not authenticated'
AddBudgetGotUser(r) ==
  /\ r \in rpc /\ r.screen = "AddBudget" /\ r.op = "getUser" /\ r.st # "sent"
  /\ IF r.res.user = 0
     THEN /\ addBudget' = [addBudget EXCEPT !.error = "Not authenticated", !.loading = FALSE]
          /\ rpc' = rpc \ {r}
     ELSE /\ rpc' = (rpc \ {r}) \cup
                    {Rpc("AddBudget", "insert",
                         [title |-> r.closure.title, amount |-> parseFloat(r.closure.amount),
                          type |-> r.closure.type, currency |-> r.closure.currency,
                          user_id |-> r.res.user],
                         r.closure)}
          /\ UNCHANGED addBudget
  /\ handled' = r
  /\ UNCHANGED <<appVars, clientAlone, presses, screen, addTask, signup, editBudget, editItem, router, timers, editTask, peer>>

AddBudgetInserted_generic(r) ==
  /\ r \in rpc /\ r.screen = "AddBudget" /\ r.op = "insert" /\ r.st # "sent"
  /\ IF r.st = "error"
     THEN /\ addBudget' = [addBudget EXCEPT !.error = "Failed to add item", !.loading = FALSE]
          /\ UNCHANGED <<router, screen>>
     ELSE /\ addBudget' = [addBudget EXCEPT !.title = <<>>, !.amount = <<>>, !.loading = FALSE]
          /\ Navigate("replace:/(tabs)")
  /\ rpc' = rpc \ {r}
  /\ handled' = r
  /\ UNCHANGED <<appVars, clientAlone, presses, addTask, signup, editBudget, editItem, timers, editTask, peer>>

\* handleAddBudgetItem after the insert
AddBudgetInserted(r) ==
  /\ r \in rpc /\ r.screen = "AddBudget" /\ r.op = "insert" /\ r.st # "sent"
  /\ IF r.st = "error"
     THEN /\ addBudget' = [addBudget EXCEPT !.error = r.res.message, !.loading = FALSE]
          /\ UNCHANGED <<router, screen>>
     ELSE /\ addBudget' = [addBudget EXCEPT !.title = <<>>, !.amount = <<>>, !.loading = FALSE]
          /\ Navigate("replace:/(tabs)")
  /\ rpc' = rpc \ {r}
  /\ handled' = r
  /\ UNCHANGED <<appVars, clientAlone, presses, addTask, signup, editBudget, editItem, timers, editTask, peer>>

\* --- AddTaskScreen
AddTaskTypes(title, deadline) ==
  /\ screen = "AddTask" /\ Input
  /\ addTask' = [addTask EXCEPT !.title = title, !.deadline = deadline]
  /\ handled' = NoResponse
  /\ UNCHANGED <<appVars, clientAlone, screen, addBudget, signup, editBudget, editItem, rpc, router, timers, editTask, peer>>

\* handleAddTask up to its first await
handleAddTask ==
  /\ screen = "AddTask" /\ ~addTask.loading /\ Input
  /\ IF Trim(addTask.title) = <<>>
     THEN /\ addTask' = [addTask EXCEPT !.alert = "Task title cannot be empty"]
          /\ UNCHANGED rpc
     ELSE /\ addTask' = [addTask EXCEPT !.loading = TRUE]
          /\ rpc' = rpc \cup {Rpc("AddTask", "getUser", NoPayload,
                                  [title |-> addTask.title, deadline |-> addTask.deadline])}
  /\ Pressed("AddTask")
  /\ UNCHANGED <<appVars, clientAlone, screen, addBudget, signup, editBudget, editItem, router, timers, editTask, peer>>

AddTaskGotUser_anonymous(r) ==
  /\ r \in rpc /\ r.screen = "AddTask" /\ r.op = "getUser" /\ r.st # "sent"
  /\ rpc' = (rpc \ {r}) \cup
            {Rpc("AddTask", "insert",
                 [title |-> r.closure.title, deadline |-> r.closure.deadline,
                  user_id |-> r.res.user],
                 r.closure)}
  /\ UNCHANGED addTask
  /\ handled' = r
  /\ UNCHANGED <<appVars, clientAlone, presses, screen, addBudget, signup, editBudget, editItem, router, timers, editTask, peer>>

AddTaskGotUser(r) ==
  /\ r \in rpc /\ r.screen = "AddTask" /\ r.op = "getUser" /\ r.st # "sent"
  /\ IF r.res.user = 0
     THEN /\ addTask' = [addTask EXCEPT !.alert = "Not authenticated", !.loading = FALSE]
          /\ rpc' = rpc \ {r}
     ELSE /\ rpc' = (rpc \ {r}) \cup
                    {Rpc("AddTask", "insert",
                         [title |-> r.closure.title, deadline |-> r.closure.deadline,
                          user_id |-> r.res.user],
                         r.closure)}
          /\ UNCHANGED addTask
  /\ handled' = r
  /\ UNCHANGED <<appVars, clientAlone, presses, screen, addBudget, signup, editBudget, editItem, router, timers, editTask, peer>>

AddTaskInserted(r) ==
  /\ r \in rpc /\ r.screen = "AddTask" /\ r.op = "insert" /\ r.st # "sent"
  /\ IF r.st = "error"
     THEN /\ addTask' = [addTask EXCEPT !.alert = r.res.message, !.loading = FALSE]
          /\ UNCHANGED <<router, screen>>
     ELSE /\ addTask' = [addTask EXCEPT !.title = <<>>, !.deadline = EmptyDeadline, !.loading = FALSE]
          /\ Navigate("back")
  /\ rpc' = rpc \ {r}
  /\ handled' = r
  /\ UNCHANGED <<appVars, clientAlone, presses, addBudget, signup, editBudget, editItem, timers, editTask, peer>>

\* --- SignupScreen
SignupTypes(password) ==
  /\ screen = "Signup" /\ Input
  /\ signup' = [signup EXCEPT !.password = password]
  /\ handled' = NoResponse
  /\ UNCHANGED <<appVars, clientAlone, screen, addBudget, addTask, editBudget, editItem, rpc, router, timers, editTask, peer>>

PasswordMessage == "Password must be 10 characters long, with at least one uppercase letter, one lowercase letter, one number, and one special character."

\* handleSignup up to its await
handleSignup ==
  /\ screen = "Signup" /\ ~signup.loading /\ Input
  /\ IF ~validatePassword(signup.password)
     THEN /\ signup' = [signup EXCEPT !.passwordError = PasswordMessage]
          /\ UNCHANGED rpc
     ELSE /\ signup' = [signup EXCEPT !.passwordError = "", !.loading = TRUE]
          /\ rpc' = rpc \cup {Rpc("Signup", "signUp", [password |-> signup.password], NoPayload)}
  /\ Pressed("Signup")
  /\ UNCHANGED <<appVars, clientAlone, screen, addBudget, addTask, editBudget, editItem, router, timers, editTask, peer>>

SignedUp(r) ==
  /\ r \in rpc /\ r.screen = "Signup" /\ r.op = "signUp" /\ r.st # "sent"
  /\ IF r.st = "error"
     THEN /\ signup' = [signup EXCEPT !.passwordError = r.res.message, !.loading = FALSE]
          /\ UNCHANGED <<router, screen>>
     ELSE /\ signup' = [signup EXCEPT !.loading = FALSE]
          /\ Navigate("replace:/(auth)/login")
  /\ rpc' = rpc \ {r}
  /\ handled' = r
  /\ UNCHANGED <<appVars, clientAlone, presses, addBudget, addTask, editBudget, editItem, timers, editTask, peer>>

\* --- LoginScreen
handleLogin_reentrant ==
  /\ screen = "Login" /\ Input
  /\ login' = [login EXCEPT !.loading = TRUE]
  /\ rpc' = rpc \cup {Rpc("Login", "signIn", NoPayload, NoPayload)}
  /\ Pressed("Login")
  /\ UNCHANGED <<storage, isDark, root, auth, clientAlone, screen, formScreens, router, timers>>

\* handleLogin up to its await; the button is disabled while loading
handleLogin ==
  /\ screen = "Login" /\ ~login.loading /\ Input
  /\ login' = [login EXCEPT !.loading = TRUE]
  /\ rpc' = rpc \cup {Rpc("Login", "signIn", NoPayload, NoPayload)}
  /\ Pressed("Login")
  /\ UNCHANGED <<storage, isDark, root, auth, clientAlone, screen, formScreens, router, timers>>

\* handleLogin after the await: alert(error.message), or the tabs
LoggedIn(r) ==
  /\ r \in rpc /\ r.screen = "Login" /\ r.op = "signIn" /\ r.st # "sent"
  /\ IF r.st = "error"
     THEN /\ login' = [login EXCEPT !.alert = r.res.message, !.loading = FALSE]
          /\ UNCHANGED <<router, screen>>
     ELSE /\ login' = [login EXCEPT !.loading = FALSE]
          /\ Navigate("replace:/(tabs)")
  /\ rpc' = rpc \ {r}
  /\ handled' = r
  /\ UNCHANGED <<storage, isDark, root, auth, clientAlone, presses, formScreens, timers>>

\* --- EditBudgetScreen
\* the screen that sent r is still on display: a set-state call of a screen
\* that was left changes nothing
Mounted(r) == screen = r.screen /\ r.visit = Len(router)

\* the arrow of the header: router.back()
EditBudgetBack ==
  /\ screen = "EditBudget" /\ Input
  /\ Navigate("back")
  /\ Pressed("EditBudget:back")
  /\ UNCHANGED <<appVars, clientAlone, formScreens, rpc, timers>>

EditBudgetTypes(title, amount, type) ==
  /\ screen = "EditBudget" /\ Input
  /\ editBudget' = [editBudget EXCEPT !.title = title, !.amount = amount, !.type = type]
  /\ handled' = NoResponse
  /\ UNCHANGED <<appVars, clientAlone, screen, addBudget, addTask, signup, editItem, rpc, router, timers, editTask, peer>>

\* fetchItem after the await; data.amount.toString() throws on a null
\* amount, after setTitle and before setAmount and setType
EditBudgetFetched(r) ==
  /\ r \in rpc /\ r.screen = "EditBudget" /\ r.op = "selectOne" /\ r.st # "sent"
  /\ IF r.st = "error"
     THEN /\ editBudget' = IF Mounted(r)
                           THEN [editBudget EXCEPT !.error = "Failed to fetch item details"]
                           ELSE editBudget
          /\ timers' = [timers EXCEPT !.back = @ + 1]
     ELSE /\ editBudget' =
               IF ~Mounted(r) THEN editBudget
               ELSE IF r.res.row.amount.k = "null"
               THEN [editBudget EXCEPT !.title = r.res.row.title]
               ELSE [editBudget EXCEPT !.title = r.res.row.title,
                                       !.amount = toString(r.res.row.amount),
                                       !.type = r.res.row.type]
          /\ UNCHANGED timers
  /\ rpc' = rpc \ {r}
  /\ handled' = r
  /\ UNCHANGED <<appVars, clientAlone, presses, screen, addBudget, addTask, signup, editItem, router, editTask, peer>>

\* EditBudgetScreen.handleSave up to its await
EditBudgetScreen_handleSave ==
  /\ screen = "EditBudget" /\ ~editBudget.loading /\ Input
  /\ IF Trim(editBudget.title) = <<>> \/ Trim(editBudget.amount) = <<>>
     THEN /\ editBudget' = [editBudget EXCEPT !.error = "Please fill in all fields"]
          /\ timers' = [timers EXCEPT !.clearError = @ + 1]
          /\ UNCHANGED rpc
     ELSE IF isNaN(parseFloat(editBudget.amount))
     THEN /\ editBudget' = [editBudget EXCEPT !.error = "Please enter a valid amount"]
          /\ timers' = [timers EXCEPT !.clearError = @ + 1]
          /\ UNCHANGED rpc
     ELSE /\ editBudget' = [editBudget EXCEPT !.error = "", !.loading = TRUE]
          /\ rpc' = rpc \cup {Rpc("EditBudget", "update",
                                  [id |-> editBudget.id, title |-> editBudget.title,
                                   amount |-> parseFloat(editBudget.amount),
                                   type |-> editBudget.type],
                                  NoPayload)}
          /\ UNCHANGED timers
  /\ Pressed("EditBudget")
  /\ UNCHANGED <<appVars, clientAlone, screen, addBudget, addTask, signup, editItem, router, editTask, peer>>

\* EditBudgetScreen.handleSave after the await
EditBudgetSaved(r) ==
  /\ r \in rpc /\ r.screen = "EditBudget" /\ r.op = "update" /\ r.st # "sent"
  /\ IF r.st = "error"
     THEN /\ editBudget' = IF Mounted(r)
                           THEN [editBudget EXCEPT !.loading = FALSE, !.error = "Failed to update item"]
                           ELSE editBudget
          /\ timers' = [timers EXCEPT !.clearError = @ + 1]
     ELSE /\ editBudget' = IF Mounted(r)
                           THEN [editBudget EXCEPT !.loading = FALSE, !.success = "Changes saved successfully"]
                           ELSE editBudget
          /\ timers' = [timers EXCEPT !.back = @ + 1]
  /\ rpc' = rpc \ {r}
  /\ handled' = r
  /\ UNCHANGED <<appVars, clientAlone, presses, screen, addBudget, addTask, signup, editItem, router, editTask, peer>>

\* EditBudgetScreen.handleDelete up to its await
EditBudgetScreen_handleDelete ==
  /\ screen = "EditBudget" /\ ~editBudget.loading /\ Input
  /\ editBudget' = [editBudget EXCEPT !.loading = TRUE]
  /\ rpc' = rpc \cup {Rpc("EditBudget", "delete", [id |-> editBudget.id], NoPayload)}
  /\ handled' = [op |-> "press", screen |-> "EditBudget:delete"]
  /\ UNCHANGED <<appVars, clientAlone, screen, addBudget, addTask, signup, editItem, editTask, router, timers, peer>>

EditBudgetDeleted_atOnce(r) ==
  /\ r \in rpc /\ r.screen = "EditBudget" /\ r.op = "delete" /\ r.st # "sent"
  /\ editBudget' = IF Mounted(r) THEN [editBudget EXCEPT !.loading = FALSE] ELSE editBudget
  /\ timers' = [timers EXCEPT !.back = @ + 1]
  /\ rpc' = rpc \ {r}
  /\ handled' = r
  /\ UNCHANGED <<appVars, clientAlone, presses, screen, addBudget, addTask, signup, editItem, editTask, router, peer>>

\* EditBudgetScreen.handleDelete after the await
EditBudgetDeleted(r) ==
  /\ r \in rpc /\ r.screen = "EditBudget" /\ r.op = "delete" /\ r.st # "sent"
  /\ IF r.st = "error"
     THEN /\ editBudget' = IF Mounted(r)
                           THEN [editBudget EXCEPT !.loading = FALSE, !.error = "Failed to delete item"]
                           ELSE editBudget
          /\ timers' = [timers EXCEPT !.clearError = @ + 1]
     ELSE /\ editBudget' = IF Mounted(r)
                           THEN [editBudget EXCEPT !.loading = FALSE, !.success = "Item deleted successfully"]
                           ELSE editBudget
          /\ timers' = [timers EXCEPT !.back = @ + 1]
  /\ rpc' = rpc \ {r}
  /\ handled' = r
  /\ UNCHANGED <<appVars, clientAlone, presses, screen, addBudget, addTask, signup, editItem, editTask, router, peer>>

\* setTimeout(() => router.back(), ...)
BackTimerFires ==
  /\ timers.back > 0
  /\ timers' = [timers EXCEPT !.back = @ - 1]
  /\ Navigate("back")
  /\ handled' = NoResponse
  /\ UNCHANGED <<appVars, clientAlone, presses, addBudget, addTask, signup, editBudget, editItem, rpc, editTask, peer>>

\* setTimeout(() => setError(''), 3000)
ClearErrorTimerFires ==
  /\ timers.clearError > 0
  /\ timers' = [timers EXCEPT !.clearError = @ - 1]
  /\ editBudget' = [editBudget EXCEPT !.error = ""]
  /\ handled' = NoResponse
  /\ UNCHANGED <<appVars, clientAlone, presses, screen, addBudget, addTask, signup, editItem, rpc, router, editTask, peer>>

\* --- EditBudgetItem
\* the title input, the amount input (parseFloat(text) || 0) and toggleType
EditItemTypes(title, amount, type) ==
  /\ screen = "EditItem" /\ ~editItem.loading /\ editItem.item # NoItem /\ Input
  /\ editItem' = [editItem EXCEPT !.item = [@ EXCEPT !.title = title,
                                                      !.amount = OrZero(parseFloat(amount)),
                                                      !.type = type]]
  /\ handled' = NoResponse
  /\ UNCHANGED <<appVars, clientAlone, screen, addBudget, addTask, signup, editBudget, rpc, router, timers, editTask, peer>>

\* fetchItem after the await
EditItemFetched(r) ==
  /\ r \in rpc /\ r.screen = "EditItem" /\ r.op = "selectOne" /\ r.st # "sent"
  /\ editItem' = IF r.st = "ok" THEN [editItem EXCEPT !.item = r.res.row, !.loading = FALSE]
                 ELSE [editItem EXCEPT !.loading = FALSE]
  /\ rpc' = rpc \ {r}
  /\ handled' = r
  /\ UNCHANGED <<appVars, clientAlone, presses, screen, addBudget, addTask, signup, editBudget, router, timers, editTask, peer>>

\* EditBudgetItem.handleSave up to its await; the button shows once the
\* item is loaded
EditBudgetItem_handleSave ==
  /\ screen = "EditItem" /\ ~editItem.loading /\ editItem.item # NoItem /\ Input
  /\ rpc' = rpc \cup {Rpc("EditItem", "update",
                          [id |-> editItem.id, title |-> editItem.item.title,
                           amount |-> editItem.item.amount, type |-> editItem.item.type,
                           currency |-> editItem.item.currency],
                          [currency |-> editItem.item.currency])}
  /\ Pressed("EditItem")
  /\ UNCHANGED <<appVars, clientAlone, screen, addBudget, addTask, signup, editBudget, editItem, router, timers, editTask, peer>>

\* EditBudgetItem.handleSave after the await: on success the currency
\* preference is written, and unless that write throws the screen is left
EditItemSaved(r) ==
  /\ r \in rpc /\ r.screen = "EditItem" /\ r.op = "update" /\ r.st # "sent"
  /\ IF r.st = "error"
     THEN UNCHANGED <<storage, router, screen>>
     ELSE \E stored \in BOOLEAN :
            IF stored
            THEN /\ storage' = [storage EXCEPT !.currencyPreference = r.closure.currency]
                 /\ Navigate("replace:/(tabs)")
            ELSE UNCHANGED <<storage, router, screen>>
  /\ rpc' = rpc \ {r}
  /\ handled' = r
  /\ UNCHANGED <<isDark, login, root, auth, clientAlone, presses, addBudget, addTask, signup, editBudget,
                 editItem, timers, editTask, peer>>

\* --- EditTask
TypedCategories == {"Work"}

\* the title input, the completed switch and the category picker
EditTaskTypes(title, completed, category) ==
  /\ screen = "EditTask" /\ ~editTask.loading /\ editTask.task # NoItem /\ Input
  /\ editTask' = [editTask EXCEPT !.task = [@ EXCEPT !.title = title, !.completed = completed],
                                  !.category = category]
  /\ handled' = NoResponse
  /\ UNCHANGED <<appVars, clientAlone, screen, addBudget, addTask, signup, editBudget, editItem, rpc, router, timers, peer>>

\* fetchTask after the await; data.category || ''
EditTaskFetched(r) ==
  /\ r \in rpc /\ r.screen = "EditTask" /\ r.op = "selectOne" /\ r.st # "sent"
  /\ editTask' = IF r.st = "ok"
                 THEN [editTask EXCEPT !.task = r.res.row,
                                       !.category = IF r.res.row.category = NoCategory THEN ""
                                                    ELSE r.res.row.category,
                                       !.loading = FALSE]
                 ELSE [editTask EXCEPT !.loading = FALSE]
  /\ rpc' = rpc \ {r}
  /\ handled' = r
  /\ UNCHANGED <<appVars, clientAlone, presses, screen, addBudget, addTask, signup, editBudget, editItem, router, timers, peer>>

\* EditTask.handleSave up to its await; the button shows once the task is
\* loaded
EditTask_handleSave ==
  /\ screen = "EditTask" /\ ~editTask.loading /\ editTask.task # NoItem /\ Input
  /\ rpc' = rpc \cup {Rpc("EditTask", "update",
                          [id |-> editTask.id, title |-> editTask.task.title,
                           completed |-> editTask.task.completed, category |-> editTask.category],
                          NoPayload)}
  /\ Pressed("EditTask")
  /\ UNCHANGED <<appVars, clientAlone, screen, addBudget, addTask, signup, editBudget, editItem, editTask, router, timers, peer>>

\* EditTask.handleSave after the await: if (!error) router.back()
EditTaskSaved(r) ==
  /\ r \in rpc /\ r.screen = "EditTask" /\ r.op = "update" /\ r.st # "sent"
  /\ IF r.st = "error" THEN UNCHANGED <<router, screen>> ELSE Navigate("back")
  /\ rpc' = rpc \ {r}
  /\ handled' = r
  /\ UNCHANGED <<appVars, clientAlone, presses, addBudget, addTask, signup, editBudget, editItem, editTask, timers, peer>>

\* ---------------------------------------- specification: create and edit
StoredBudgetItems == {<<>>, <<BudgetItem(1, <<"a">>, Finite(FALSE, 425, -1), "outcome", "USD")>>}

StoredTasks == {<<>>, <<Task(1, <<"a">>, FALSE, NoCategory, NoDeadline)>>}

InitForms ==
  /\ now = 0 /\ renderedAt = -1
  /\ taskSections = <<>> /\ budgetSections = <<>> /\ sections = <<>>
  /\ tasks = <<>> /\ budgetItems = <<>> /\ items = <<>>
  /\ activeTab = "tasks"
  /\ dbBudget \in StoredBudgetItems
  /\ dbTasks \in StoredTasks
  /\ Len(dbTasks) = Len(dbBudget)
  /\ net = {}
  /\ presses = 0
  /\ screen = "none"
  /\ handled = NoResponse
  /\ FormsIdle
  /\ AppIdle

NextForms ==
  \/ \E r \in rpc : RpcFails(r)
  \/ \E r \in rpc : RpcGetsUser(r)
  \/ \E r \in rpc : RpcInserts(r)
  \/ \E r \in rpc : RpcSelectsOne(r)
  \/ \E r \in rpc : RpcUpdates(r)
  \/ \E r \in rpc : RpcDeletes(r)
  \/ \E r \in rpc : RpcSignsIn(r)
  \/ \E sc \in {"AddBudget", "AddTask", "Signup", "Login"} : OpenScreen(sc)
  \/ handleLogin
  \/ \E r \in rpc : LoggedIn(r)
  \/ EditBudgetBack
  \/ \E sc \in {"EditBudget", "EditItem", "EditTask"}, id \in 1..MaxRows : OpenEdit(sc, id)
  \/ \E title \in Titles, amount \in AmountTexts, type \in BudgetTypes : AddBudgetTypes(title, amount, type)
  \/ handleAddBudgetItem
  \/ \E r \in rpc : AddBudgetGotUser(r)
  \/ \E r \in rpc : AddBudgetInserted(r)
  \/ \E title \in Titles, deadline \in TypedDeadlines : AddTaskTypes(title, deadline)
  \/ handleAddTask
  \/ \E r \in rpc : AddTaskGotUser(r)
  \/ \E r \in rpc : AddTaskInserted(r)
  \/ \E password \in Passwords : SignupTypes(password)
  \/ handleSignup
  \/ \E r \in rpc : SignedUp(r)
  \/ \E title \in Titles, amount \in AmountTexts, type \in BudgetTypes : EditBudgetTypes(title, amount, type)
  \/ \E r \in rpc : EditBudgetFetched(r)
  \/ EditBudgetScreen_handleSave
  \/ \E r \in rpc : EditBudgetSaved(r)
  \/ EditBudgetScreen_handleDelete
  \/ \E r \in rpc : EditBudgetDeleted(r)
  \/ BackTimerFires
  \/ ClearErrorTimerFires
  \/ \E title \in Titles, amount \in AmountTexts, type \in BudgetTypes : EditItemTypes(title, amount, type)
  \/ \E r \in rpc : EditItemFetched(r)
  \/ EditBudgetItem_handleSave
  \/ \E r \in rpc : EditItemSaved(r)
  \/ \E title \in Titles, completed \in BOOLEAN, category \in {editTask.category} \cup TypedCategories :
       EditTaskTypes(title, completed, category)
  \/ \E r \in rpc : EditTaskFetched(r)
  \/ EditTask_handleSave
  \/ \E r \in rpc : EditTaskSaved(r)

SpecForms == InitForms /\ [][NextForms]_vars

\* ------------------------------------------------------- a second device
\* the same user runs the app on a second device, on EditBudgetScreen or on
\* EditTask; its requests reach the same store
PeerScreens == {"Peer:EditBudget", "Peer:EditTask"}

PeerRpc(op, payload) == [Rpc(peer.screen, op, payload, NoPayload) EXCEPT !.at = peer.inputs]

PeerInput == peer.inputs < MaxPeerInputs

peerAlone ==
  <<appVars, clientAlone, presses, screen, handled, addBudget, addTask, signup, editBudget, editItem,
    editTask, router, timers>>

\* the screen mounts and reads its row by id
PeerOpens(sc, id) ==
  /\ peer.screen = "none" /\ PeerInput
  /\ sc \in PeerScreens
  /\ peer' = [NoPeer EXCEPT !.screen = sc, !.id = id, !.loading = (sc = "Peer:EditTask"),
                            !.inputs = peer.inputs + 1]
  /\ rpc' = rpc \cup {[Rpc(sc, "selectOne", [id |-> id], NoPayload) EXCEPT !.at = peer.inputs]}
  /\ UNCHANGED peerAlone

\* fetchItem / fetchTask after the await
PeerFetched(r) ==
  /\ r \in rpc /\ r.screen \in PeerScreens /\ r.op = "selectOne" /\ r.st # "sent"
  /\ peer' =
       IF r.screen = "Peer:EditBudget"
       THEN IF r.st = "error"
            THEN [peer EXCEPT !.error = "Failed to fetch item details", !.back = @ + 1]
            ELSE IF r.res.row.amount.k = "null"
            THEN [peer EXCEPT !.title = r.res.row.title]
            ELSE [peer EXCEPT !.title = r.res.row.title,
                              !.amount = toString(r.res.row.amount),
                              !.type = r.res.row.type]
       ELSE IF r.st = "error"
            THEN [peer EXCEPT !.loading = FALSE]
            ELSE [peer EXCEPT !.title = r.res.row.title,
                              !.completed = r.res.row.completed,
                              !.category = IF r.res.row.category = NoCategory THEN ""
                                           ELSE r.res.row.category,
                              !.loaded = TRUE, !.loading = FALSE]
  /\ rpc' = rpc \ {r}
  /\ UNCHANGED peerAlone

\* the inputs of the form: title, amount and type of a budget item; title,
\* completed and category of a task
PeerTypes(title, amount, type, completed, category) ==
  /\ PeerInput
  /\ \/ /\ peer.screen = "Peer:EditBudget"
        /\ peer' = [peer EXCEPT !.title = title, !.amount = amount, !.type = type,
                                !.inputs = @ + 1]
     \/ /\ peer.screen = "Peer:EditTask" /\ peer.loaded /\ ~peer.loading
        /\ peer' = [peer EXCEPT !.title = title, !.completed = completed,
                                !.category = category, !.inputs = @ + 1]
  /\ UNCHANGED <<peerAlone, rpc>>

\* handleSave up to its await
PeerSaves ==
  /\ PeerInput
  /\ \/ /\ peer.screen = "Peer:EditBudget" /\ ~peer.loading
        /\ IF Trim(peer.title) = <<>> \/ Trim(peer.amount) = <<>>
           THEN /\ peer' = [peer EXCEPT !.error = "Please fill in all fields", !.inputs = @ + 1]
                /\ UNCHANGED rpc
           ELSE IF isNaN(parseFloat(peer.amount))
           THEN /\ peer' = [peer EXCEPT !.error = "Please enter a valid amount", !.inputs = @ + 1]
                /\ UNCHANGED rpc
           ELSE /\ peer' = [peer EXCEPT !.error = "", !.loading = TRUE, !.inputs = @ + 1]
                /\ rpc' = rpc \cup {PeerRpc("update",
                                            [id |-> peer.id, title |-> peer.title,
                                             amount |-> parseFloat(peer.amount),
                                             type |-> peer.type])}
     \/ /\ peer.screen = "Peer:EditTask" /\ peer.loaded /\ ~peer.loading
        /\ peer' = [peer EXCEPT !.inputs = @ + 1]
        /\ rpc' = rpc \cup {PeerRpc("update",
                                    [id |-> peer.id, title |-> peer.title,
                                     completed |-> peer.completed, category |-> peer.category])}
  /\ UNCHANGED peerAlone

\* handleSave after the await
PeerSaved(r) ==
  /\ r \in rpc /\ r.screen \in PeerScreens /\ r.op = "update" /\ r.st # "sent"
  /\ peer' =
       IF r.screen = "Peer:EditBudget"
       THEN IF r.st = "error"
            THEN [peer EXCEPT !.loading = FALSE, !.error = "Failed to update item"]
            ELSE [peer EXCEPT !.loading = FALSE, !.success = "Changes saved successfully",
                              !.back = @ + 1]
       ELSE IF r.st = "error" THEN peer
            ELSE [peer EXCEPT !.screen = "none"]
  /\ rpc' = rpc \ {r}
  /\ UNCHANGED peerAlone

\* setTimeout(() => router.back(), ...) and setTimeout(() => setError(''), 3000)
PeerTimerFires ==
  /\ \/ peer.back > 0 /\ peer' = [peer EXCEPT !.back = @ - 1, !.screen = "none"]
     \/ /\ peer.error \in {"Please fill in all fields", "Please enter a valid amount",
                          "Failed to update item"}
        /\ peer' = [peer EXCEPT !.error = ""]
  /\ UNCHANGED <<peerAlone, rpc>>

\* the ids both devices can open: those stored in both collections
SharedRows == Ids(dbBudget) \cap Ids(dbTasks)

DeviceTitles == {<<"a">>, <<"c">>}

PeerTitles == {<<"b">>}

DeviceAmounts == {<<"7">>}

PeerAmounts == {<<"8">>}

InitDevices ==
  /\ now = 0 /\ renderedAt = -1
  /\ taskSections = <<>> /\ budgetSections = <<>> /\ sections = <<>>
  /\ tasks = <<>> /\ budgetItems = <<>> /\ items = <<>>
  /\ activeTab = "tasks"
  /\ dbBudget \in StoredBudgetItems /\ dbBudget # <<>>
  /\ dbTasks \in StoredTasks /\ dbTasks # <<>>
  /\ net = {}
  /\ presses = 0
  /\ screen = "none"
  /\ handled = NoResponse
  /\ FormsIdle
  /\ AppIdle

NextDevices ==
  \/ \E r \in rpc : RpcFails(r)
  \/ \E r \in rpc : RpcSelectsOne(r)
  \/ \E r \in rpc : RpcUpdates(r)
  \/ \E sc \in {"EditBudget", "EditTask"}, id \in SharedRows : OpenEdit(sc, id)
  \/ \E title \in DeviceTitles, amount \in DeviceAmounts, type \in BudgetTypes :
       EditBudgetTypes(title, amount, type)
  \/ \E r \in rpc : EditBudgetFetched(r)
  \/ EditBudgetScreen_handleSave
  \/ \E r \in rpc : EditBudgetSaved(r)
  \/ BackTimerFires
  \/ ClearErrorTimerFires
  \/ \E title \in DeviceTitles, completed \in BOOLEAN : EditTaskTypes(title, completed, editTask.category)
  \/ \E r \in rpc : EditTaskFetched(r)
  \/ EditTask_handleSave
  \/ \E r \in rpc : EditTaskSaved(r)
  \/ \E sc \in PeerScreens, id \in SharedRows : PeerOpens(sc, id)
  \/ \E r \in rpc : PeerFetched(r)
  \/ \E title \in PeerTitles, amount \in PeerAmounts, type \in BudgetTypes, completed \in BOOLEAN :
       PeerTypes(title, amount, type, completed, peer.category)
  \/ PeerSaves
  \/ \E r \in rpc : PeerSaved(r)
  \/ PeerTimerFires

SpecDevices == InitDevices /\ [][NextDevices]_vars

\* ------------------------------------------- claims: create and edit screens
CreateScreens == {"AddBudget", "AddTask", "Signup"}

\* the screen's local validation rejects what its form holds
ValidationFails(sc) ==
  CASE sc = "AddBudget" -> Trim(addBudget.title) = <<>> \/ ~AmountIsValid(addBudget.amount)
    [] sc = "AddTask" -> Trim(addTask.title) = <<>>
    [] sc = "Signup" -> ~validatePassword(signup.password)

\* the step is a press of the submit button of create screen sc
Submits(sc) == handled' = [op |-> "press", screen |-> sc]

\* the message the screen shows after the step
Shown_error(sc) ==
  CASE sc = "AddBudget" -> addBudget'.error
    [] sc = "AddTask" -> addTask'.alert
    [] sc = "Signup" -> signup'.passwordError

\* C8: on the create screens (add task, add budget item, signup) a submit
\* whose local validation fails shows an error and does nothing else: no
\* request (getUser, insert, signUp) is issued, the store is untouched, the
\* fields of the form keep their values, loading stays off, and the router
\* is not called.
C8_InvalidSubmitStaysLocal ==
  [][\A sc \in CreateScreens :
       (Submits(sc) /\ ValidationFails(sc)) =>
         /\ Shown_error(sc) # ""
         /\ rpc' = rpc
         /\ dbBudget' = dbBudget /\ dbTasks' = dbTasks
         /\ router' = router /\ screen' = screen
         /\ addBudget' = [addBudget EXCEPT !.error = addBudget'.error]
         /\ addTask' = [addTask EXCEPT !.alert = addTask'.alert]
         /\ signup' = [signup EXCEPT !.passwordError = signup'.passwordError]]_vars

\* C8 witness: the add-budget form was submitted with a title and an amount
\* text that is not a number; the error shows, the fields are as typed and
\* nothing was sent or navigated.
C8_Witness ==
  /\ handled = [op |-> "press", screen |-> "AddBudget"]
  /\ screen = "AddBudget"
  /\ addBudget.title = <<"a">> /\ addBudget.amount = <<"a", "b">>
  /\ addBudget.error = "Please enter a valid amount"
  /\ ~addBudget.loading
  /\ rpc = {} /\ router = <<>>

\* the add-budget inserts on their way to the store
AddBudgetInserts == {r \in rpc : r.screen = "AddBudget" /\ r.op = "insert"}

\* C9: the amount carried by an add-budget insert is a finite number and is
\* the number the validation accepted for the submitted amount text.
C9_InsertCarriesValidatedAmount ==
  \A r \in AddBudgetInserts :
    /\ r.payload.amount.k = "fin"
    /\ r.payload.amount = Number(r.closure.amount)

\* C10: no stored budget item has a negative amount, whatever create and
\* edit operations were done.
C10_StoredAmountsNonNegative ==
  \A i \in 1..Len(dbBudget) : ~dbBudget[i].amount.neg

\* the password rule in words: exactly ten characters, each a letter, a digit
\* or one of @$!%*?&, with an uppercase letter, a lowercase letter, a digit
\* and a symbol among them
MeetsPasswordRule(p) ==
  /\ Len(p) = 10
  /\ \A i \in 1..Len(p) : p[i] \in LowerCase \cup UpperCase \cup Range(Digits) \cup Symbols
  /\ \E i \in 1..Len(p) : p[i] \in UpperCase
  /\ \E i \in 1..Len(p) : p[i] \in LowerCase
  /\ \E i \in 1..Len(p) : p[i] \in Range(Digits)
  /\ \E i \in 1..Len(p) : p[i] \in Symbols

Completes(sc, st) ==
  /\ handled'.op \in {"insert", "signUp"}
  /\ handled'.screen = sc
  /\ handled'.st = st

\* where each create screen goes on success
Destination(sc) ==
  CASE sc = "AddBudget" -> "replace:/(tabs)"
    [] sc = "AddTask" -> "back"
    [] sc = "Signup" -> "replace:/(auth)/login"

NavigatesAway(sc) == router' = Append(router, Destination(sc)) /\ screen' = "none"

\* the text fields of the form are empty after the step
FieldsCleared(sc) ==
  CASE sc = "AddBudget" -> addBudget'.title = <<>> /\ addBudget'.amount = <<>>
    [] sc = "AddTask" -> addTask'.title = <<>> /\ addTask'.deadline = EmptyDeadline
    [] sc = "Signup" -> signup'.password = <<>>

\* the fields of the form are what they were before the step
FieldsKept(sc) ==
  CASE sc = "AddBudget" -> /\ addBudget'.title = addBudget.title
                           /\ addBudget'.amount = addBudget.amount
                           /\ addBudget'.type = addBudget.type
    [] sc = "AddTask" -> addTask'.title = addTask.title /\ addTask'.deadline = addTask.deadline
    [] sc = "Signup" -> signup'.password = signup.password

\* a failed insert or signUp shows the remote message as it came, keeps the
\* fields and does not navigate
FailureStaysOnForm(sc) ==
  Completes(sc, "error") =>
    /\ Shown_error(sc) = handled'.res.message
    /\ FieldsKept(sc)
    /\ router' = router /\ screen' = screen

\* C12 (as stated): on every create screen a successful insert or signUp
\* clears the fields and navigates away; a failed one shows the remote
\* message verbatim, keeps the fields and does not navigate.
C12_SuccessClearsAndLeaves ==
  [][\A sc \in CreateScreens :
       /\ Completes(sc, "ok") => FieldsCleared(sc) /\ NavigatesAway(sc)
       /\ FailureStaysOnForm(sc)]_vars

\* C12 (amended): a successful insert clears the text fields of the add-task
\* and add-budget forms and navigates away; a successful signUp navigates to
\* login and leaves the password field as it is; a failed insert or signUp
\* shows the remote message verbatim, keeps the fields and does not navigate.
C12_SuccessLeaves ==
  [][\A sc \in CreateScreens :
       /\ Completes(sc, "ok") =>
            /\ NavigatesAway(sc)
            /\ IF sc = "Signup" THEN FieldsKept(sc) ELSE FieldsCleared(sc)
       /\ FailureStaysOnForm(sc)]_vars

\* C12 witness: a signUp succeeded; the app went to login and the password
\* is still in the field.
C12_Witness ==
  /\ handled.op = "signUp" /\ handled.st = "ok"
  /\ signup.password # <<>>
  /\ router = <<"replace:/(auth)/login">>
  /\ screen = "none"

InsertScreens == {"AddTask", "AddBudget"}

\* the requests of create screen sc for operation op
RequestsOf(requests, sc, op) == {r \in requests : r.screen = sc /\ r.op = op}

\* the requests of create screen sc for operation op that the step sends
SentBy(sc, op) == {r \in RequestsOf(rpc', sc, op) : r.st = "sent"} \ rpc

\* the form of an insert screen after the step
FormAfter(sc) ==
  CASE sc = "AddBudget" -> [loading |-> addBudget'.loading, message |-> addBudget'.error]
    [] sc = "AddTask" -> [loading |-> addTask'.loading, message |-> addTask'.alert]

\* C13: on the add-task and add-budget screens a submit that passes
\* validation sends a getUser request and no insert; the code after getUser
\* sends exactly one insert, with the resolved user's id as user_id, when a
\* user was resolved, and otherwise sends nothing, reports 'Not
\* authenticated' and resets loading; an insert is never sent by any other
\* step.
C13_InsertCarriesResolvedUser ==
  [][\A sc \in InsertScreens :
       /\ (Submits(sc) /\ ~ValidationFails(sc)) =>
            /\ Cardinality(SentBy(sc, "getUser")) = 1
            /\ SentBy(sc, "insert") = {}
       /\ (handled'.op = "getUser" /\ handled'.screen = sc) =>
            /\ handled' \in rpc /\ handled' \notin rpc'
            /\ IF handled'.res.user # 0
               THEN /\ Cardinality(rpc' \ rpc) = 1
                    /\ \A r \in rpc' \ rpc :
                         /\ r.op = "insert" /\ r.screen = sc
                         /\ r.payload.user_id = handled'.res.user
               ELSE /\ rpc' = rpc \ {handled'}
                    /\ FormAfter(sc) = [loading |-> FALSE, message |-> "Not authenticated"]
       /\ SentBy(sc, "insert") # {} =>
            /\ handled'.op = "getUser" /\ handled'.screen = sc
            /\ handled'.res.user # 0]_vars

\* C13 witness: the add-task handler resolved the user and its insert,
\* carrying that user's id, is on its way.
C13_Witness ==
  /\ handled.op = "getUser" /\ handled.screen = "AddTask" /\ handled.res.user = UserId
  /\ \E r \in rpc : r.op = "insert" /\ r.screen = "AddTask" /\ r.payload.user_id = UserId

EditScreens == {"EditBudget", "EditItem", "EditTask"}

\* the step runs the code after the await of operation op of screen sc, on
\* an answer with status st
After(sc, op, st) == handled'.op = op /\ handled'.screen = sc /\ handled'.st = st

\* the edit screen shows an error after the step: the error banner of
\* EditBudgetScreen, the 'Item not found' and 'Task not found' texts of the
\* other two
ShowsError(sc) ==
  CASE sc = "EditBudget" -> editBudget'.error # ""
    [] sc = "EditItem" -> ~editItem'.loading /\ editItem'.item = NoItem
    [] sc = "EditTask" -> ~editTask'.loading /\ editTask'.task = NoItem

\* the step leaves the edit form without the fields of a row
NotPopulated(sc) ==
  CASE sc = "EditBudget" -> /\ editBudget'.title = editBudget.title
                            /\ editBudget'.amount = editBudget.amount
                            /\ editBudget'.type = editBudget.type
    [] sc = "EditItem" -> editItem'.item = NoItem
    [] sc = "EditTask" -> editTask'.task = NoItem

\* C14: on every edit screen, when the read by id at activation fails, the
\* screen shows an error, the fields are not populated and a navigate-back
\* is scheduled.
C14_FailedReadShowsErrorAndLeaves ==
  [][\A sc \in EditScreens :
       After(sc, "selectOne", "error") =>
         /\ ShowsError(sc)
         /\ NotPopulated(sc)
         /\ timers'.back = timers.back + 1]_vars

\* a field of the edit form that Save writes is empty or, for a budget
\* item, its amount is not a number
EditFormInvalid(sc) ==
  CASE sc = "EditBudget" -> \/ Trim(editBudget.title) = <<>>
                            \/ Trim(editBudget.amount) = <<>>
                            \/ isNaN(parseFloat(editBudget.amount))
    [] sc = "EditItem" -> Trim(editItem.item.title) = <<>> \/ editItem.item.amount.k # "fin"
    [] sc = "EditTask" -> Trim(editTask.task.title) = <<>>

\* C15: on every edit screen a Save on a form with an empty field (or, for a
\* budget item, an amount that is not a number) sends no update and leaves
\* the store as it is.
C15_InvalidSaveSendsNothing ==
  [][\A sc \in EditScreens :
       (Submits(sc) /\ EditFormInvalid(sc)) =>
         /\ SentBy(sc, "update") = {}
         /\ dbBudget' = dbBudget /\ dbTasks' = dbTasks]_vars

\* the messages an edit screen shows after the step; EditBudgetItem and
\* EditTask have no message to show for a save
SaveMessages(sc) ==
  CASE sc = "EditBudget" -> [success |-> editBudget'.success, error |-> editBudget'.error]
    [] sc = "EditItem" -> [success |-> "", error |-> ""]
    [] sc = "EditTask" -> [success |-> "", error |-> ""]

\* the edit form after the step can be edited and saved again, with the
\* fields it had
StaysEditable(sc) ==
  CASE sc = "EditBudget" -> /\ ~editBudget'.loading
                            /\ editBudget'.title = editBudget.title
                            /\ editBudget'.amount = editBudget.amount
                            /\ editBudget'.type = editBudget.type
    [] sc = "EditItem" -> editItem' = editItem /\ ~editItem.loading
    [] sc = "EditTask" -> editTask' = editTask /\ ~editTask.loading

\* what Save does on edit screen sc: one update for a valid form; after a
\* successful update a success message and a scheduled navigate-back; after
\* a failed one an error message, no navigation now or scheduled, and an
\* editable form
SaveProtocol(sc) ==
  /\ (Submits(sc) /\ ~EditFormInvalid(sc)) =>
       /\ Cardinality(SentBy(sc, "update")) = 1
       /\ \A r \in SentBy(sc, "update") : "id" \in DOMAIN r.payload
  /\ After(sc, "update", "ok") =>
       /\ SaveMessages(sc).success # ""
       /\ timers'.back = timers.back + 1
       /\ router' = router
  /\ After(sc, "update", "error") =>
       /\ SaveMessages(sc).error # ""
       /\ router' = router /\ screen' = screen
       /\ timers'.back = timers.back
       /\ StaysEditable(sc)

\* C16: every edit screen follows the Save protocol: exactly one update by
\* id for a valid form; success message then navigate-back after the delay;
\* on failure an error message, no navigation and an editable form.
C16_SaveProtocolOnEveryEditScreen ==
  [][\A sc \in EditScreens : SaveProtocol(sc)]_vars

\* the step is a press of Delete on EditBudgetScreen
PressesDelete == handled' = [op |-> "press", screen |-> "EditBudget:delete"]

\* C17: a press of Delete on EditBudgetScreen sends, in that same step, one
\* delete of the row with the screen's id; after a successful delete a
\* navigate-back is scheduled and the screen, if it is still on display,
\* shows the success message; after a failed one nothing is navigated or
\* scheduled and the screen, if still on display, shows the error message;
\* either way loading is reset on the screen that sent the delete.
C17_DeleteProtocol ==
  [][/\ PressesDelete =>
          /\ Cardinality(SentBy("EditBudget", "delete")) = 1
          /\ \A r \in SentBy("EditBudget", "delete") : r.payload = [id |-> editBudget.id]
          /\ rpc \subseteq rpc'
     /\ After("EditBudget", "delete", "ok") =>
          /\ timers'.back = timers.back + 1
          /\ router' = router /\ screen' = screen
          /\ Mounted(handled') =>
                /\ editBudget'.success = "Item deleted successfully"
                /\ ~editBudget'.loading
     /\ After("EditBudget", "delete", "error") =>
          /\ timers'.back = timers.back
          /\ router' = router /\ screen' = screen
          /\ Mounted(handled') =>
                /\ editBudget'.error = "Failed to delete item"
                /\ ~editBudget'.loading]_vars

\* C17 witness: the stored item was deleted from its edit screen; the
\* success message shows and the navigate-back is pending.
C17_Witness ==
  /\ handled.op = "delete" /\ handled.st = "ok"
  /\ editBudget.success = "Item deleted successfully"
  /\ ~editBudget.loading
  /\ timers.back = 1
  /\ screen = "EditBudget"
  /\ editBudget.id \notin Ids(dbBudget)

\* the add-budget inserts the store has applied and the screen has not yet
\* handled; the row of the latest is the first of the store
AddBudgetStored == {r \in AddBudgetInserts : r.st = "ok"}

\* C18: the row the store holds after an add-budget insert has the numeric
\* value of the amount text that was entered (the number its validation
\* accepted) and the type that was selected.
C18_StoredAsEntered ==
  \A r \in AddBudgetStored :
    /\ dbBudget # <<>>
    /\ dbBudget[1].amount = Number(r.closure.amount)
    /\ dbBudget[1].type = r.closure.type

\* ------------------------------------------------ claims: list-screen toggle
\* the updates the step sends
UpdatesSent == {r \in net' \ net : r.op = "update" /\ r.st = "sent"}

\* the updates the store applies in the step
UpdatesApplied ==
  {r \in net : r.op = "update" /\ r.st = "sent" /\ [r EXCEPT !.st = "ok"] \in net'}

\* the field a toggle of list L writes
ToggledField(L) == IF IsTaskList(L) THEN "completed" ELSE "type"

Negation(field, value) ==
  IF field = "completed" THEN ~value
  ELSE IF value = "income" THEN "outcome" ELSE "income"

\* C19: a toggle on a list screen sends one update that names one field
\* (completed for a task, type for a budget item) and the id of a row the
\* screen shows, with the negation of the value the screen holds for that
\* row; when the store applies it, the other fields of that row, the other
\* rows and the other collection are unchanged.
C19_ToggleWritesOneFieldOfOneRow ==
  [][/\ Cardinality(UpdatesSent) <= 1
     /\ \A r \in UpdatesSent :
          /\ r.fields = {ToggledField(r.list)}
          /\ \E i \in 1..Len(Local(r.list)) :
               /\ Local(r.list)[i].id = r.id
               /\ r[ToggledField(r.list)] =
                    Negation(ToggledField(r.list), Local(r.list)[i][ToggledField(r.list)])
     /\ \A r \in UpdatesApplied :
          /\ Len(Db(r.list)') = Len(Db(r.list))
          /\ \A i \in 1..Len(Db(r.list)) :
               \A f \in DOMAIN Db(r.list)[i] :
                 IF Db(r.list)[i].id = r.id /\ f = ToggledField(r.list)
                 THEN Db(r.list)'[i][f] = r[f]
                 ELSE Db(r.list)'[i][f] = Db(r.list)[i][f]
          /\ IF IsTaskList(r.list) THEN dbBudget' = dbBudget ELSE dbTasks' = dbTasks]_vars

\* C19 witness: the store has applied a toggle of one of two rows; the
\* screen still holds the old value of that row, and the other stored row
\* has a value the toggle would have changed.
C19_Witness ==
  \E r \in net :
    /\ r.op = "update" /\ r.st = "ok"
    /\ Len(Db(r.list)) = 2
    /\ \E i, j \in 1..2 :
         /\ Db(r.list)[i].id = r.id /\ Db(r.list)[j].id # r.id
         /\ Db(r.list)[i][ToggledField(r.list)] = r[ToggledField(r.list)]
         /\ Db(r.list)[j][ToggledField(r.list)] # r[ToggledField(r.list)]
    /\ \E i \in 1..Len(Local(r.list)) :
         /\ Local(r.list)[i].id = r.id
         /\ Local(r.list)[i][ToggledField(r.list)] # r[ToggledField(r.list)]

\* ------------------------------------------------------ claims: two devices
\* the updates the store applies in the step, of either device
SavesApplied ==
  {r \in rpc : r.op = "update" /\ r.st = "sent" /\ [r EXCEPT !.st = "ok"] \in rpc'}

\* the stored row the update r names, before and after the step
RowBefore(r) ==
  LET table == IF OnTasks(r) THEN dbTasks ELSE dbBudget
  IN CHOOSE b \in Range(table) : b.id = r.payload.id

RowAfter(r) ==
  LET table == IF OnTasks(r) THEN dbTasks' ELSE dbBudget'
  IN CHOOSE b \in Range(table) : b.id = r.payload.id

\* C20: with two devices editing the same row, every save that is sent can
\* be applied by the store whatever the row holds by then, and applying it
\* leaves the row with the values of that save in the fields it names and
\* the old values in the others: the last applied save wins and no
\* conflict is detected.
C20_LastWriteWins ==
  [][/\ \A r \in rpc : (r.op = "update" /\ r.st = "sent") => ENABLED RpcUpdates(r)
     /\ \A r \in SavesApplied :
          \A f \in DOMAIN RowBefore(r) :
            RowAfter(r)[f] = IF f \in DOMAIN r.payload THEN r.payload[f] ELSE RowBefore(r)[f]]_vars

\* C20 witness: both devices saved the shared budget item and both were
\* told of success; the store holds the second device's values, not the
\* ones the first device saved and still shows.
C20_Witness ==
  /\ editBudget.success = "Changes saved successfully"
  /\ peer.success = "Changes saved successfully"
  /\ editBudget.title \in DeviceTitles
  /\ peer.id = editBudget.id
  /\ dbBudget[1].id = editBudget.id
  /\ dbBudget[1].title \in PeerTitles

\* ------------------------------------------------- claims: order in sections
\* where the row with this id stands in the list (0 when it is not there)
PositionIn(rows, row) ==
  IF \E i \in 1..Len(rows) : rows[i] = row
  THEN CHOOSE i \in 1..Len(rows) : rows[i] = row
  ELSE 0

\* the sections show rows of the list, each at most once over all sections,
\* and within a section in the order of the list
KeepsOrder(secs, rows) ==
  /\ \A k \in 1..Len(secs) :
       LET data == secs[k].data
       IN \A i, j \in 1..Len(data) :
            /\ PositionIn(rows, data[i]) > 0
            /\ i < j => PositionIn(rows, data[i]) < PositionIn(rows, data[j])
  /\ \A row \in Range(rows) : Occurrences(secs, row) <= 1

\* C24: in every displayed section (Urgent, Ongoing, Done, Income, Outcome)
\* the rows stand in the order they have in the list the last read gave,
\* and no row is shown twice.
C24_SectionsKeepReadOrder ==
  /\ TaskListRendered => KeepsOrder(taskSections, tasks) /\ KeepsOrder(budgetSections, budgetItems)
  /\ BudgetScreenRendered => KeepsOrder(sections, items)

\* C24 witness: two completed tasks are listed under "Done" and two budget
\* items under one section, the newer before the older.
C24_Witness ==
  /\ TaskListRendered
  /\ Len(SectionData(taskSections, "Done")) = 2
  /\ SectionData(taskSections, "Done")[1].id > SectionData(taskSections, "Done")[2].id
  /\ \E k \in 1..Len(budgetSections) :
       /\ Len(budgetSections[k].data) = 2
       /\ budgetSections[k].data[1].id > budgetSections[k].data[2].id

\* ------------------------------------------------- claims: overlapping requests
\* a delete of the row is still on its way or its handler has yet to run
DeletePending(L, id) == \E q \in net : q.op = "delete" /\ q.list = L /\ q.id = id

\* C25: a row that a successful delete has taken out of the collection, and
\* that is gone from the local list with the delete's handler done, is in no
\* later local list, whatever response is applied next.
C25_DeletedRowStaysGone ==
  [][\A L \in Lists : \A id \in RowIds :
       (/\ id \notin Ids(Db(L))
        /\ id \notin Ids(Local(L))
        /\ Local(L) # <<>>
        /\ ~DeletePending(L, id))
         => id \notin Ids(Local(L)')]_vars

\* C26: when the response of a read has been applied and no request is left
\* in flight, the local list is the collection as it stands.
C26_QuiescentLocalIsRemote ==
  (net = {} /\ handled.op = "select" /\ handled.st = "ok")
    => Local(handled.list) = Db(handled.list)

\* the toggle that request q stands for: the update itself, or the update
\* whose re-fetch q is
FirstToggle(q) == IF q.op = "update" THEN ToggleOf(q) ELSE q.toggle

\* C27: while a first successful toggle of a row has not yet shown in the
\* local list (its handler or its re-fetch is pending) and the collection
\* holds the value it wrote, a second toggle of that row that succeeds
\* puts the collection's field back to the value before the first.
C27_SecondToggleRestores ==
  [][\A q, u \in net :
       (/\ q # u /\ q.list = u.list
        /\ \/ q.op = "update" /\ q.st = "ok"
           \/ q.op = "select" /\ q.toggle.id # 0
        /\ FirstToggle(q).id = u.id
        /\ Visible(Db(q.list), FirstToggle(q))
        /\ ~Visible(Local(q.list), FirstToggle(q))
        /\ u.op = "update" /\ u.st = "sent"
        /\ [u EXCEPT !.st = "ok"] \in net')
         => ~Visible(Db(u.list)', FirstToggle(q))]_vars

\* ------------------------------------------------- preferences: theme, currency
\* the codes of CURRENCIES, in the order of the array
CURRENCIES == <<"USD", "EUR", "GBP", "JPY", "CAD", "AUD", "INR", "CNY">>

\* the keys of BudgetScreen's currencySymbols: what its updateCurrency stores
currencySymbols == {"USD", "EUR", "GBP", "JPY", "INR", "AUD", "CAD", "CHF", "CNY", "SEK"}

\* CURRENCIES.find(c => c.code === code), by code
FindCurrency(code) ==
  IF \E i \in DOMAIN CURRENCIES : CURRENCIES[i] = code THEN code ELSE "undefined"

\* JavaScript truthiness of what getItem resolved to (string | null)
Saved(value) == value # NoPreference /\ value # ""

\* AsyncStorage.setItem(key, value): it stores the value, or it rejects
SetItem(key, value, stored) ==
  storage' = IF stored THEN [storage EXCEPT ![key] = value] ELSE storage

loadPreferences_trusting ==
  /\ screen = "AddBudget" /\ storage.reading
  /\ \E thrown \in {"none", "theme", "currency"} :
       /\ isDark' = IF thrown # "theme" /\ Saved(storage.themePreference)
                    THEN storage.themePreference = "dark" ELSE isDark
       /\ addBudget' = IF thrown = "none" /\ Saved(storage.currencyPreference)
                       THEN [addBudget EXCEPT !.currency = storage.currencyPreference]
                       ELSE addBudget
  /\ storage' = [storage EXCEPT !.reading = FALSE]
  /\ handled' = NoResponse
  /\ UNCHANGED <<login, root, auth, clientAlone, presses, screen, addTask, signup, editBudget, editItem,
                 rpc, router, timers, editTask, peer>>

\* AddBudgetScreen's mount effect after its reads: either getItem may
\* throw, which the catch logs; a saved currency is taken only when
\* CURRENCIES holds it
loadPreferences ==
  /\ screen = "AddBudget" /\ storage.reading
  /\ \E thrown \in {"none", "theme", "currency"} :
       /\ isDark' = IF thrown # "theme" /\ Saved(storage.themePreference)
                    THEN storage.themePreference = "dark" ELSE isDark
       /\ addBudget' = IF /\ thrown = "none" /\ Saved(storage.currencyPreference)
                          /\ FindCurrency(storage.currencyPreference) # "undefined"
                       THEN [addBudget EXCEPT !.currency = FindCurrency(storage.currencyPreference)]
                       ELSE addBudget
  /\ storage' = [storage EXCEPT !.reading = FALSE]
  /\ handled' = NoResponse
  /\ UNCHANGED <<login, root, auth, clientAlone, presses, screen, addTask, signup, editBudget, editItem,
                 rpc, router, timers, editTask, peer>>

\* the screens with a theme button: AddTaskScreen, TaskList, BudgetScreen
ThemeScreens == {"AddTask", "TaskList", "BudgetScreen"}

\* loadThemePreference of the other screens (BudgetScreen: loadData)
loadThemePreference(sc) ==
  /\ screen = sc /\ sc \in ThemeScreens \cup {"EditItem"} /\ storage.reading
  /\ \E thrown \in BOOLEAN :
       isDark' = IF ~thrown /\ Saved(storage.themePreference)
                 THEN storage.themePreference = "dark" ELSE isDark
  /\ storage' = [storage EXCEPT !.reading = FALSE]
  /\ handled' = NoResponse
  /\ UNCHANGED <<login, root, auth, clientAlone, presses, screen, formVars>>

\* AddBudgetScreen.handleCurrencyChange: the write is not awaited
AddBudget_handleCurrencyChange(currencyCode) ==
  /\ screen = "AddBudget" /\ Input
  /\ addBudget' = [addBudget EXCEPT !.currency = IF FindCurrency(currencyCode) # "undefined"
                                                 THEN FindCurrency(currencyCode) ELSE CURRENCIES[1]]
  /\ \E stored \in BOOLEAN : SetItem("currencyPreference", currencyCode, stored)
  /\ Pressed("AddBudget:currency")
  /\ UNCHANGED <<isDark, login, root, auth, clientAlone, screen, addTask, signup, editBudget, editItem,
                 rpc, router, timers, editTask, peer>>

toggleTheme_reverting(sc) ==
  /\ screen = sc /\ sc \in ThemeScreens /\ Input
  /\ \E stored \in BOOLEAN :
       /\ isDark' = IF stored THEN ~isDark ELSE isDark
       /\ SetItem("themePreference", IF ~isDark THEN "dark" ELSE "light", stored)
       /\ handled' = [op |-> "toggleTheme", screen |-> sc, st |-> IF stored THEN "ok" ELSE "error",
                      caught |-> sc # "BudgetScreen"]
  /\ UNCHANGED <<login, root, auth, clientAlone, screen, formVars>>

\* toggleTheme: the flag is flipped, then the write is awaited; AddTaskScreen
\* and TaskList catch a rejection and log it, BudgetScreen has no catch and
\* its rejection stays unhandled
toggleTheme(sc) ==
  /\ screen = sc /\ sc \in ThemeScreens /\ Input
  /\ isDark' = ~isDark
  /\ \E stored \in BOOLEAN :
       /\ SetItem("themePreference", IF ~isDark THEN "dark" ELSE "light", stored)
       /\ handled' = [op |-> "toggleTheme", screen |-> sc, st |-> IF stored THEN "ok" ELSE "error",
                      caught |-> sc # "BudgetScreen"]
  /\ UNCHANGED <<login, root, auth, clientAlone, screen, formVars>>

\* EditBudgetItem.handleCurrencyChange up to its await: setItem first, then
\* the update of the one column; the closure holds the item of this render
EditBudgetItem_handleCurrencyChange(currencyCode) ==
  /\ screen = "EditItem" /\ ~editItem.loading /\ editItem.item # NoItem /\ Input
  /\ editItem' = [editItem EXCEPT !.item = [@ EXCEPT !.currency = currencyCode]]
  /\ rpc' = rpc \cup {Rpc("EditItem:currency", "update",
                          [id |-> editItem.id, currency |-> currencyCode], editItem.item)}
  /\ Pressed("EditItem:currency")
  /\ UNCHANGED <<appVars, clientAlone, screen, addBudget, addTask, signup, editBudget, router, timers,
                 editTask, peer>>

\* EditBudgetItem.handleCurrencyChange after the await: on an error the
\* item of the closure is set again, on success the preference is written
\* (a rejection of that write is caught and logged)
EditItemCurrencyChanged(r) ==
  /\ r \in rpc /\ r.screen = "EditItem:currency" /\ r.op = "update" /\ r.st # "sent"
  /\ IF r.st = "error"
     THEN /\ editItem' = IF screen = "EditItem"
                         THEN [editItem EXCEPT !.item = [r.closure EXCEPT !.currency = r.closure.currency]]
                         ELSE editItem
          /\ UNCHANGED storage
     ELSE /\ \E stored \in BOOLEAN : SetItem("currencyPreference", r.payload.currency, stored)
          /\ UNCHANGED editItem
  /\ rpc' = rpc \ {r}
  /\ handled' = r
  /\ UNCHANGED <<isDark, login, root, auth, clientAlone, presses, screen, addBudget, addTask, signup,
                 editBudget, router, timers, editTask, peer>>

\* what is found under the two keys when a screen mounts: nothing, a theme,
\* a code of CURRENCIES, or a code only BudgetScreen's selector offers
StoredThemes == {NoPreference, "dark", "light"}
StoredCurrencies == {NoPreference, "EUR", "CHF"}

\* what the user picks and types on the screens with a currency picker
PickedCurrencies == {"EUR", "CNY"}

PreferenceScreens == ThemeScreens \cup {"AddBudget", "EditItem"}

\* a screen is mounted and the reads of its mount effects are on their way;
\* the stored currency varies where it is read (AddBudgetScreen), the stored
\* theme where a theme is shown with a button to change it
InitPreferences ==
  /\ now = 0 /\ renderedAt = -1
  /\ taskSections = <<>> /\ budgetSections = <<>> /\ sections = <<>>
  /\ tasks = <<>> /\ budgetItems = <<>> /\ items = <<>>
  /\ activeTab = "tasks"
  /\ dbBudget \in StoredBudgetItems /\ dbBudget # <<>>
  /\ dbTasks = <<>>
  /\ net = {}
  /\ presses = 0
  /\ screen \in PreferenceScreens
  /\ handled = NoResponse
  /\ addBudget = FreshAddBudget /\ addTask = FreshAddTask /\ signup = FreshSignup
  /\ editBudget = FreshEditBudget(0) /\ editTask = FreshEditTask(0) /\ peer = NoPeer
  /\ editItem = FreshEditItem(IF screen = "EditItem" THEN 1 ELSE 0)
  /\ router = <<>> /\ timers = NoTimers
  /\ rpc = IF screen = "EditItem" THEN {Rpc("EditItem", "selectOne", [id |-> 1], NoPayload)} ELSE {}
  /\ storage \in [themePreference : StoredThemes, currencyPreference : StoredCurrencies,
                  reading : {TRUE}]
  /\ screen # "AddBudget" => storage.currencyPreference = NoPreference
  /\ screen = "EditItem" => storage.themePreference = NoPreference
  /\ isDark = FALSE
  /\ login = FreshLogin /\ root = FreshRoot /\ auth = SignedOut

NextPreferences ==
  \/ \E r \in rpc : RpcFails(r)
  \/ \E r \in rpc : RpcGetsUser(r)
  \/ \E r \in rpc : RpcInserts(r)
  \/ \E r \in rpc : RpcSelectsOne(r)
  \/ \E r \in rpc : RpcUpdates(r)
  \/ loadPreferences
  \/ \E sc \in PreferenceScreens : loadThemePreference(sc)
  \/ \E sc \in ThemeScreens : toggleTheme(sc)
  \/ \E title \in PeerTitles, amount \in DeviceAmounts, type \in BudgetTypes : AddBudgetTypes(title, amount, type)
  \/ \E code \in PickedCurrencies : AddBudget_handleCurrencyChange(code)
  \/ handleAddBudgetItem
  \/ \E r \in rpc : AddBudgetGotUser(r)
  \/ \E r \in rpc : AddBudgetInserted(r)
  \/ \E title \in PeerTitles, amount \in DeviceAmounts, type \in BudgetTypes : EditItemTypes(title, amount, type)
  \/ \E r \in rpc : EditItemFetched(r)
  \/ \E code \in PickedCurrencies : EditBudgetItem_handleCurrencyChange(code)
  \/ \E r \in rpc : EditItemCurrencyChanged(r)
  \/ EditBudgetItem_handleSave
  \/ \E r \in rpc : EditItemSaved(r)

SpecPreferences == InitPreferences /\ [][NextPreferences]_vars

\* ------------------------------------------------- claims: preferences
\* the requests that write a currency to budget_items
CurrencyWrites == {r \in rpc : r.op \in {"insert", "update"} /\ "currency" \in DOMAIN r.payload}

\* C21: every currency the add-budget insert, the edit-budget save and the
\* edit-budget currency change send, and so every currency a row holds, is
\* a code of CURRENCIES, whatever currencyPreference held at load.
C21_WrittenCurrencySupported ==
  /\ \A r \in CurrencyWrites : r.payload.currency \in Range(CURRENCIES)
  /\ \A i \in 1..Len(dbBudget) : dbBudget[i].currency \in Range(CURRENCIES)

\* C21 witness: the stored preference is a code CURRENCIES does not hold,
\* the preferences have been read, and the insert of add-budget was stored.
C21_Witness ==
  /\ storage.currencyPreference = "CHF" /\ ~storage.reading
  /\ handled.op = "insert" /\ handled.screen = "AddBudget" /\ handled.st = "ok"
  /\ Len(dbBudget) = 2

\* the step is a press of the theme button
TogglesTheme == handled'.op = "toggleTheme" /\ presses' = presses + 1

\* C22: a press of the theme button flips isDark; when the write succeeds
\* themePreference is 'dark' exactly when the new flag is dark; when it
\* fails the store is as before, and either way the screen stays mounted
\* with its fields, lists and requests untouched and no message set.
C22_ToggleThemeIgnoresFailedWrite ==
  [][TogglesTheme =>
       /\ isDark' = ~isDark
       /\ handled'.st = "ok" =>
            storage'.themePreference = (IF isDark' THEN "dark" ELSE "light")
       /\ handled'.st = "error" => storage' = storage
       /\ storage'.currencyPreference = storage.currencyPreference
       /\ UNCHANGED <<screen, formVars, localVars, net, login>>]_vars

\* C22 witness: the write of a toggle failed, the flag is dark and the
\* stored theme is not.
C22_Witness ==
  /\ handled.op = "toggleTheme" /\ handled.st = "error"
  /\ isDark /\ storage.themePreference # "dark"
  /\ screen \in ThemeScreens

\* the step handles the response r of a currency change
HandlesCurrencyChange(r) ==
  r \in rpc /\ r.screen = "EditItem:currency" /\ r.st # "sent" /\ r \notin rpc' /\ screen = "EditItem"

\* C29: a currency change shows in the local item in the step that sends
\* the update; when the update fails the item's currency is the one before
\* the change, currencyPreference is untouched and title, amount and type
\* are as the user left them; when it succeeds currencyPreference is not
\* set to anything but the new code.
C29_CurrencyChangeRollsBack ==
  [][/\ (handled'.op = "press" /\ handled'.screen = "EditItem:currency" /\ presses' = presses + 1) =>
          \E r \in rpc' \ rpc :
            /\ r.screen = "EditItem:currency" /\ r.st = "sent"
            /\ editItem'.item.currency = r.payload.currency
     /\ \A r \in rpc :
          HandlesCurrencyChange(r) =>
            IF r.st = "error"
            THEN /\ editItem'.item.currency = r.closure.currency
                 /\ storage' = storage
                 /\ editItem'.item.title = editItem.item.title
                 /\ editItem'.item.amount = editItem.item.amount
                 /\ editItem'.item.type = editItem.item.type
            ELSE storage'.currencyPreference \in {r.payload.currency, storage.currencyPreference}]_vars

\* ------------------------------------------------- claims: loading flag, way back
\* the screens with a loading flag for their submissions
SubmitScreens == {"Login", "Signup", "AddTask", "AddBudget", "EditBudget"}

Loading(sc) ==
  CASE sc = "Login" -> login.loading
    [] sc = "Signup" -> signup.loading
    [] sc = "AddTask" -> addTask.loading
    [] sc = "AddBudget" -> addBudget.loading
    [] sc = "EditBudget" -> editBudget.loading

\* the requests a submit handler of the screen on display has sent and not
\* yet handled
OwnSubmissions(sc) ==
  {r \in rpc : /\ r.screen = sc /\ r.visit = Len(router)
               /\ r.op \in {"signIn", "signUp", "getUser", "insert", "update", "delete"}}

\* C23: on login, signup, add task, add budget and edit budget, while the
\* screen is on display its loading flag is true exactly while a submission
\* of it is in flight or its response waits for the handler, and it never
\* has two submissions of its own at once.
C23_LoadingWhileInFlight ==
  \A sc \in SubmitScreens :
    screen = sc =>
      /\ Cardinality(OwnSubmissions(sc)) <= 1
      /\ Loading(sc) <=> OwnSubmissions(sc) # {}

\* C23 witness: add-budget's getUser gave no user, the handler has ended
\* with 'Not authenticated', and the flag is false again.
C23_Witness ==
  /\ screen = "AddBudget"
  /\ handled.op = "getUser" /\ handled.screen = "AddBudget" /\ handled.res.user = 0
  /\ addBudget.error = "Not authenticated"
  /\ ~addBudget.loading /\ OwnSubmissions("AddBudget") = {}

\* C28: a router.back() of the edit-budget screen, from its delayed
\* callbacks or from the arrow of its header, is called while the screen
\* is still on display: none follows the one that left the screen.
C28_OneBackPerVisit ==
  [][(/\ router' = Append(router, "back")
      /\ \/ timers'.back < timers.back
         \/ handled'.op = "press" /\ handled'.screen = "EditBudget:back")
       => screen = "EditBudget"]_vars

\* ------------------------------------------------- RootLayout
\* what RootLayout and the auth service leave alone
rootAlone == <<storage, isDark, login, clientAlone, presses, screen, formVars>>

\* prepare() from the await of getSession on: the query gives the session,
\* or gives { session: null } with an error, or throws; only when it has
\* not thrown are setSession and onAuthStateChange reached; the finally
\* block sets isReady on every path
prepare(outcome) ==
  /\ root.pc = "getSession"
  /\ root' = CASE outcome = "session" ->
                    [root EXCEPT !.session = auth.session, !.subscribed = TRUE,
                                 !.isReady = TRUE, !.pc = "hideAsync"]
               [] outcome = "error" ->
                    [root EXCEPT !.session = NoSession, !.subscribed = TRUE,
                                 !.isReady = TRUE, !.pc = "hideAsync"]
               [] outcome = "throws" -> [root EXCEPT !.isReady = TRUE, !.pc = "hideAsync"]
  /\ handled' = NoResponse
  /\ UNCHANGED <<auth, rootAlone>>

\* await SplashScreen.hideAsync() in the finally block
hideAsync ==
  /\ root.pc = "hideAsync"
  /\ root' = [root EXCEPT !.splash = FALSE, !.pc = "done"]
  /\ handled' = NoResponse
  /\ UNCHANGED <<auth, rootAlone>>

\* the callback given to onAuthStateChange: setSession(session)
onAuthStateChange ==
  /\ root.subscribed /\ auth.events # <<>>
  /\ root' = [root EXCEPT !.session = Head(auth.events)]
  /\ auth' = [auth EXCEPT !.events = Tail(@)]
  /\ handled' = NoResponse
  /\ UNCHANGED rootAlone

\* the session ends without the user's doing on a screen: it expires, or
\* the user signs out elsewhere
SessionEnds ==
  /\ auth.session # NoSession /\ Input
  /\ Announce(NoSession)
  /\ handled' = NoResponse
  /\ UNCHANGED <<storage, isDark, login, root, clientAlone, screen, formVars>>

\* the layout mounts with the session the service has kept, if any
InitRoot ==
  /\ now = 0 /\ renderedAt = -1
  /\ taskSections = <<>> /\ budgetSections = <<>> /\ sections = <<>>
  /\ tasks = <<>> /\ budgetItems = <<>> /\ items = <<>>
  /\ activeTab = "tasks"
  /\ dbBudget = <<>> /\ dbTasks = <<>>
  /\ net = {}
  /\ presses = 0
  /\ screen = "none"
  /\ handled = NoResponse
  /\ FormsIdle
  /\ storage = [themePreference |-> NoPreference, currencyPreference |-> NoPreference,
                reading |-> FALSE]
  /\ isDark = FALSE
  /\ login = FreshLogin
  /\ root = FreshRoot
  /\ auth \in {[SignedOut EXCEPT !.session = s] : s \in {NoSession, UserId}}

\* <Slot /> shows the login screen only once isReady is true
NextRoot ==
  \/ \E outcome \in {"session", "error", "throws"} : prepare(outcome)
  \/ hideAsync
  \/ onAuthStateChange
  \/ SessionEnds
  \/ root.isReady /\ OpenScreen("Login")
  \/ handleLogin
  \/ \E r \in rpc : RpcSignsIn(r)
  \/ \E r \in rpc : RpcFails(r)
  \/ \E r \in rpc : LoggedIn(r)

\* a pending promise settles, and a queued callback is run: the query of
\* the session, hideAsync, and the delivery of a notification are not
\* postponed for ever
SpecRoot ==
  /\ InitRoot /\ [][NextRoot]_vars
  /\ WF_vars(\E outcome \in {"session", "error", "throws"} : prepare(outcome))
  /\ WF_vars(hideAsync)
  /\ WF_vars(onAuthStateChange)

\* ------------------------------------------------- claims: RootLayout
\* isReady is true and the splash is gone: <Slot /> is on display
RootReady == root.isReady /\ ~root.splash

\* with every notification delivered, the held session is that of the
\* last change the service announced
HoldsLastAnnounced ==
  (root.isReady /\ auth.last # NoNotification /\ auth.events = <<>>)
    => root.session = auth.last

\* C30: RootLayout becomes ready whenever the query of the session settles,
\* a throw included, and once it is ready and no notification is left
\* undelivered it holds the session of the last auth state change.
C30_ReadyAndInSync == <>RootReady /\ []HoldsLastAnnounced

\* the readiness alone
C30_EventuallyReady == <>[]RootReady

====
